---- MODULE Spec2Model ----
(***************************************************************************)
(* Model of the investment-proposal API: the allocation engine             *)
(* (src/modules/allocation.js), the external product fetchers              *)
(* (src/modules/externalProducts.js, src/modules/allProductsList.js) and   *)
(* the product recommendation assembler (src/modules/products.js), the     *)
(* risk scorer (src/modules/risk.js) and the asset-allocation section of   *)
(* the proposal (src/modules/proposal.js).                                 *)
(*                                                                         *)
(* Units.  A portfolio size is an integer number of lakh (INR 100,000;     *)
(* 100 lakh = 1 crore), so the code's portfolioSizeInCrores is             *)
(* portfolioSize / 100.  The code's amounts are doubles; PctDouble and     *)
(* ScaleDouble compute them bit for bit (IEEE 754 binary64, round to       *)
(* nearest even).  detailedAllocation holds each amount to the nearest     *)
(* unit, UnitsPerLakh units to the lakh (Units); the rounding error of a   *)
(* double is below a millionth of a unit.  Math.round is rounding half up  *)
(* on the amounts in units.                                                *)
(***************************************************************************)
EXTENDS Integers, Sequences, FiniteSets, TLC

VARIABLES
    apc,                    \* allocation request: "idle", "request", "done"
    riskCategory,           \* riskProfile.riskCategory of the request
    portfolioSize,          \* initialInvestmentAmount, in lakh
    detailedAllocation,     \* result of getPortfolioAllocation
    assetClassAllocation,   \* result of generateAssetClassAllocation
    productTypeAllocation,  \* result of generateProductTypeAllocation
    fpc,                    \* product fetch: "idle", "pending", "delay", "done"
    fkind,                  \* the fetch function called
    retryCount,             \* retryCount of fetchProductsByCode
    requests,               \* outbound requests issued by the call so far
    response,               \* what the last request came back with
    fresult,                \* what the fetch function returned to its caller
    rpc,                    \* recommendProducts: "called", "debt", "gold", "resolved", "rejected"
    clientData,             \* the argument of recommendProducts
    fetched,                \* the external fetches recommendProducts has made: <<class, call>>
    recommendations,        \* the recommendations built so far, by asset class
    awaiting,               \* the fetch recommendProducts is suspended on, and its retryCount
    fetchResults,           \* what the fetches awaited so far returned, by call
    kpc,                    \* risk assessment: "called", "returned", "threw"
    riskInput,              \* what the risk function was called with
    riskAssessment,         \* riskScore, riskCategory and inconsistencies computed
    ppc,                    \* proposal content: "called", "returned", "threw"
    proposalInput,          \* the call, the client's figures and clientData.assetAllocation
    content,                \* the allocation tables rendered
    cpc,                    \* client profiling: "called", "returned", "threw"
    rawClientData,          \* the questionnaire processClientProfile was called with
    processedProfile,       \* the profile returned
    profileError,           \* the error thrown
    process,                \* the server process: "running", "crashed"
    now,                    \* Date.now(), in milliseconds
    pdfpc,                  \* each PDF request: "idle", "converting", "callback", "done"
    tempFiles,              \* tempMdFile and tempPdfFile of each request
    files,                  \* the temporary directory: file -> the proposal its content comes from
    answers,                \* the responses sent to each request
    zpc,                    \* position of the allocation by size category
    sizedRequest,           \* its risk category and portfolio size, in lakh
    sizedAllocation         \* what it returned

allocVars == <<apc, riskCategory, portfolioSize, detailedAllocation,
               assetClassAllocation, productTypeAllocation>>

fetchVars == <<fpc, fkind, retryCount, requests, response, fresult>>

recVars == <<rpc, clientData, fetched, recommendations, awaiting, fetchResults>>

riskVars == <<kpc, riskInput, riskAssessment>>

proposalVars == <<ppc, proposalInput, content>>

profileVars == <<cpc, rawClientData, processedProfile, profileError>>

pdfVars == <<process, now, pdfpc, tempFiles, files, answers>>

sizedVars == <<zpc, sizedRequest, sizedAllocation>>

vars == <<allocVars, fetchVars, recVars, riskVars, proposalVars, profileVars, pdfVars, sizedVars>>

----------------------------------------------------------------------------
(* Bounds of the model *)

\* largest portfolio size drawn, in lakh (26 crore: one crore past the last checkpoint)
MaxPortfolioLakh == 2600

\* largest number of items in a list an external source answers with
MaxItems == 2

----------------------------------------------------------------------------
(* Numbers *)

LakhPerCrore == 10 * 10

\* 6000 = 20 * 300: table amounts are multiples of 1/20 crore, and 300 is the
\* least common multiple of the checkpoints 2, 5, 10, 15, 20, 25
UnitsPerLakh == 20 * 300

UnitsPerCrore == LakhPerCrore * UnitsPerLakh

\* an amount given in lakh (hundredths of a crore), in units
Lakh(x) == x * UnitsPerLakh

----------------------------------------------------------------------------
(* Whole numbers of any size, for the 53-bit significands of the doubles   *)
(* and their 106-bit products: sequences of limbs below LimbBase, lowest   *)
(* limb first, no zero limb at the top; <<>> is 0.                         *)

LimbBase == 2^15

RECURSIVE Bits(_)
\* the number of binary digits of n >= 0
Bits(n) == IF n = 0 THEN 0 ELSE 1 + Bits(n \div 2)

LimbBits == Bits(LimbBase) - 1

RECURSIVE Big(_)
\* the limbs of n >= 0
Big(n) == IF n = 0 THEN <<>> ELSE <<n % LimbBase>> \o Big(n \div LimbBase)

RECURSIVE Small(_)
\* the number a short sequence of limbs stands for
Small(s) == IF s = <<>> THEN 0 ELSE Head(s) + LimbBase * Small(Tail(s))

BitLength(s) ==
    IF s = <<>> THEN 0 ELSE LimbBits * (Len(s) - 1) + Bits(s[Len(s)])

Odd(s) == s # <<>> /\ Head(s) % 2 = 1

RECURSIVE MulCarry(_, _, _)
\* s * f + carry, for 0 < f <= LimbBase
MulCarry(s, f, carry) ==
    IF s = <<>> THEN Big(carry)
    ELSE LET t == Head(s) * f + carry
         IN  <<t % LimbBase>> \o MulCarry(Tail(s), f, t \div LimbBase)

MulSmall(s, f) == IF f = 0 THEN <<>> ELSE MulCarry(s, f, 0)

RECURSIVE AddCarry(_, _, _)
AddCarry(a, b, carry) ==
    IF a = <<>> /\ b = <<>> THEN Big(carry)
    ELSE LET x == IF a = <<>> THEN 0 ELSE Head(a)
             y == IF b = <<>> THEN 0 ELSE Head(b)
             t == x + y + carry
         IN  <<t % LimbBase>>
                \o AddCarry(IF a = <<>> THEN <<>> ELSE Tail(a),
                            IF b = <<>> THEN <<>> ELSE Tail(b), t \div LimbBase)

Add(a, b) == AddCarry(a, b, 0)

\* s * LimbBase^k
ShiftLimbs(s, k) == IF s = <<>> THEN <<>> ELSE [i \in 1..k |-> 0] \o s

RECURSIVE Mul(_, _)
Mul(a, b) ==
    IF b = <<>> THEN <<>>
    ELSE Add(MulSmall(a, Head(b)), ShiftLimbs(Mul(a, Tail(b)), 1))

RECURSIVE Less(_, _)
\* a < b
Less(a, b) ==
    IF Len(a) # Len(b) THEN Len(a) < Len(b)
    ELSE IF a = <<>> THEN FALSE
    ELSE IF a[Len(a)] # b[Len(b)] THEN a[Len(a)] < b[Len(b)]
    ELSE Less(SubSeq(a, 1, Len(a) - 1), SubSeq(b, 1, Len(b) - 1))

RECURSIVE DivSmall(_, _)
\* quotient q and remainder r of s by f, for 0 < f <= LimbBase: the long
\* division from the top limb down
DivSmall(s, f) ==
    IF s = <<>> THEN [q |-> <<>>, r |-> 0]
    ELSE LET high == DivSmall(Tail(s), f)
             t == high.r * LimbBase + Head(s)
         IN  [q |-> IF t \div f = 0 /\ high.q = <<>> THEN <<>>
                    ELSE <<t \div f>> \o high.q,
              r |-> t % f]

\* s * 2^d
ShiftLeft(s, d) == ShiftLimbs(MulSmall(s, 2^(d % LimbBits)), d \div LimbBits)

\* the whole part q of s / 2^d, and whether a non-zero bit was shifted out
ShiftRight(s, d) ==
    LET whole == IF d \div LimbBits < Len(s) THEN d \div LimbBits ELSE Len(s)
        low == DivSmall(SubSeq(s, whole + 1, Len(s)), 2^(d % LimbBits))
    IN  [q |-> low.q,
         sticky |-> low.r # 0 \/ \E i \in 1..whole : s[i] # 0]

----------------------------------------------------------------------------
(* JavaScript's Number: IEEE 754 binary64, round to nearest, ties to even. *)
(* A positive double is [m, e] with value m * 2^e and 2^52 <= m < 2^53, so *)
(* two doubles are the same bits exactly when the records are equal; zero  *)
(* is Zero.  The amounts of the allocation are far from overflow and from  *)
(* the subnormal range.                                                    *)

\* the significand's bits: 52 stored and the leading one
Precision == 52 + 1

Zero == [m |-> <<>>, e |-> 0]

\* n / 2 rounded to a whole number: up when the bit dropped is set and either
\* something was lost below it (sticky) or the whole part is odd
RoundedHalf(halves, sticky) ==
    IF halves.r = 1 /\ (sticky \/ Odd(halves.q)) THEN Add(halves.q, <<1>>)
    ELSE halves.q

\* the rounding of a number shifted down to Precision + 1 bits
RoundedShift(shifted, inexact) ==
    RoundedHalf(DivSmall(shifted.q, 2), inexact \/ shifted.sticky)

\* the double m * 2^exp when rounding up has carried m to 2^Precision
Renormalised(m, exp) ==
    IF BitLength(m) > Precision THEN [m |-> DivSmall(m, 2).q, e |-> exp + 1]
    ELSE [m |-> m, e |-> exp]

\* RoundDouble for a number of Precision + excess bits
RoundExcess(n, exp, inexact, excess) ==
    IF excess <= 0 THEN [m |-> ShiftLeft(n, 0 - excess), e |-> exp + excess]
    ELSE Renormalised(RoundedShift(ShiftRight(n, excess - 1), inexact), exp + excess)

\* the double nearest to the real number n * 2^exp, or, when inexact, to a
\* real number between n * 2^exp and (n + 1) * 2^exp; with inexact, n has
\* more than Precision + 1 bits
RoundDouble(n, exp, inexact) ==
    IF n = <<>> THEN Zero
    ELSE RoundExcess(n, exp, inexact, BitLength(n) - Precision)

\* bits kept below the point in a quotient before it is rounded
QuotientBits == 5 * LimbBits

\* the double nearest to a quotient and its remainder, scaled by 2^exp
RoundQuotient(d, exp) == RoundDouble(d.q, exp, d.r # 0)

\* the double nearest to a / b for whole numbers a >= 0 and 0 < b <= LimbBase:
\* the value of a decimal literal a/b, and of the division of two whole
\* numbers held exactly
DoubleOfRatio(a, b) ==
    RoundQuotient(DivSmall(ShiftLeft(Big(a), QuotientBits), b), 0 - QuotientBits)

\* x / k for a double x and a whole number 0 < k <= LimbBase
Over(x, k) ==
    IF x = Zero THEN Zero
    ELSE RoundQuotient(DivSmall(ShiftLeft(x.m, QuotientBits), k), x.e - QuotientBits)

\* x * y
Times(x, y) ==
    IF x = Zero \/ y = Zero THEN Zero
    ELSE RoundDouble(Mul(x.m, y.m), x.e + y.e, FALSE)

\* the place of a double among the doubles in increasing order, from an
\* origin below every amount: neighbouring doubles have neighbouring places
ExponentOrigin == 2^10

Place(x) ==
    IF x = Zero THEN <<>>
    ELSE Add(ShiftLeft(Big(x.e + ExponentOrigin), Precision - 1), x.m)

\* whole numbers a and b differ by at most n
AtMostApart(a, b, n) == ~Less(Add(a, n), b) /\ ~Less(Add(b, n), a)

\* x and y are at most n doubles apart (n units in the last place)
WithinUlps(x, y, n) == AtMostApart(Place(x), Place(y), Big(n))

\* n * 2^exp to the nearest whole number, for a number that fits
Nearest(n, exp) ==
    IF exp >= 0 THEN Small(ShiftLeft(n, exp))
    ELSE (Small(ShiftRight(n, 0 - exp - 1).q) + 1) \div 2

\* the whole number of units nearest to x crore
Units(x) ==
    IF x = Zero THEN 0
    ELSE Nearest(MulSmall(MulSmall(x.m, UnitsPerLakh), LakhPerCrore), x.e)

\* portfolioSize / 10000000 for each portfolio size drawn, computed once
CroreTable ==
    [sizeLakh \in 0..MaxPortfolioLakh |-> DoubleOfRatio(sizeLakh, LakhPerCrore)] @@ <<>>

\* line 304: portfolioSize / 10000000 for a portfolio of sizeLakh lakh
InCrores(sizeLakh) == CroreTable[sizeLakh]

\* the decimal literals of the source up to 15.00, the largest, computed once
LiteralTable ==
    [hundredths \in 0..(15 * LakhPerCrore) |-> DoubleOfRatio(hundredths, 100)] @@ <<>>

\* a decimal literal of the source, hundredths given: 0.40 is Literal(40) and
\* the table's 3.75 is Literal(375)
Literal(hundredths) == LiteralTable[hundredths]

\* portfolioSize * 0.p, the double the code computes
PctDouble(sizeLakh, p) == Times(InCrores(sizeLakh), Literal(p))

\* the code's portfolioSize * 0.p, to the nearest unit
Pct(sizeLakh, p) == Units(PctDouble(sizeLakh, p))

\* Math.round(num / den) for num >= 0, den > 0
Round(num, den) == (2 * num + den) \div (2 * den)

RECURSIVE SumOver(_, _)
\* the sum of f over the keys in S
SumOver(f, S) ==
    IF S = {} THEN 0
    ELSE LET k == CHOOSE x \in S : TRUE
         IN  f[k] + SumOver(f, S \ {k})

Abs(x) == IF x < 0 THEN -x ELSE x

----------------------------------------------------------------------------
(* Risk categories *)

Recognized == {"Ultra Aggressive", "Aggressive", "Moderate", "Conservative"}

\* "Balanced" stands for any string that is not one of the four strategies
Categories == Recognized \cup {"Balanced"}

----------------------------------------------------------------------------
(* src/modules/allocation.js: the detailed vehicle breakdown *)

\* key.includes('Equity') and key.includes('Debt') on the keys the code writes
IncludesEquity(key) == key \in {"Equity AIF", "Equity PMS", "Equity Mutual Funds"}

IncludesDebt(key) == key \in {"Debt AIF", "Debt Mutual Funds", "Direct Debt"}

\* the keys of an allocation other than Total and error
Vehicles(allocation) == DOMAIN allocation \ {"Total", "error"}

\* the three-way split of the small-portfolio special cases
SmallSplit(size, equityMF, debtMF, directDebt) ==
    ("Equity Mutual Funds" :> Pct(size, equityMF)) @@
    ("Debt Mutual Funds" :> Pct(size, debtMF)) @@
    ("Direct Debt" :> Pct(size, directDebt)) @@
    ("Total" :> Lakh(size))

\* lines 485-516: the branch for portfolioSize <= 1
SmallAllocation(strategy, size) ==
    CASE strategy = "Ultra Aggressive" ->
            ("Equity Mutual Funds" :> Lakh(size)) @@ ("Total" :> Lakh(size))
      [] strategy = "Aggressive" -> SmallSplit(size, 75, 15, 10)
      [] strategy = "Moderate" -> SmallSplit(size, 60, 20, 20)
      [] strategy = "Conservative" -> SmallSplit(size, 40, 30, 30)
      [] OTHER -> ("error" :> "Invalid strategy or portfolio size")

\* StandardAllocation with the fixed 2-5 crore values of Aggressive kept above
\* 5 crore, in place of the percentages of lines 557-567
StandardAllocationFixedAbove(strategy, size) ==
    CASE strategy = "Ultra Aggressive" ->
            ("AIF" :> Pct(size, 60)) @@ ("PMS" :> Pct(size, 25)) @@
            ("Mutual Funds" :> Pct(size, 15)) @@ ("Total" :> Lakh(size))
      [] strategy = "Aggressive" /\ size <= 2 * LakhPerCrore ->
            ("Equity PMS" :> Lakh(50)) @@ ("Equity Mutual Funds" :> Lakh(100)) @@
            ("Debt Mutual Funds" :> Lakh(25)) @@ ("Direct Debt" :> Lakh(25)) @@
            ("Total" :> Lakh(size))
      [] strategy = "Aggressive" /\ size > 2 * LakhPerCrore ->
            ("Equity AIF" :> Lakh(200)) @@ ("Equity PMS" :> Lakh(100)) @@
            ("Equity Mutual Funds" :> Lakh(75)) @@
            ("Debt Mutual Funds" :> Lakh(50)) @@ ("Direct Debt" :> Lakh(75)) @@
            ("Total" :> Lakh(size))
      [] strategy = "Moderate" ->
            ("Equity PMS" :> Pct(size, 25)) @@ ("Equity Mutual Funds" :> Pct(size, 35)) @@
            ("Debt Mutual Funds" :> Pct(size, 20)) @@ ("Direct Debt" :> Pct(size, 20)) @@
            ("Total" :> Lakh(size))
      [] strategy = "Conservative" ->
            ("Equity PMS" :> Pct(size, 10)) @@ ("Equity Mutual Funds" :> Pct(size, 30)) @@
            ("Debt Mutual Funds" :> Pct(size, 30)) @@ ("Direct Debt" :> Pct(size, 30)) @@
            ("Total" :> Lakh(size))
      [] OTHER -> ("error" :> "Invalid strategy or portfolio size")

\* lines 529-587: the standard allocations for larger portfolios
StandardAllocation(strategy, size) ==
    CASE strategy = "Ultra Aggressive" ->
            ("AIF" :> Pct(size, 60)) @@ ("PMS" :> Pct(size, 25)) @@
            ("Mutual Funds" :> Pct(size, 15)) @@ ("Total" :> Lakh(size))
      [] strategy = "Aggressive" /\ size <= 2 * LakhPerCrore ->
            ("Equity PMS" :> Lakh(50)) @@ ("Equity Mutual Funds" :> Lakh(100)) @@
            ("Debt Mutual Funds" :> Lakh(25)) @@ ("Direct Debt" :> Lakh(25)) @@
            ("Total" :> Lakh(size))
      [] strategy = "Aggressive" /\ size > 2 * LakhPerCrore
                                 /\ size <= 5 * LakhPerCrore ->
            ("Equity AIF" :> Lakh(200)) @@ ("Equity PMS" :> Lakh(100)) @@
            ("Equity Mutual Funds" :> Lakh(75)) @@
            ("Debt Mutual Funds" :> Lakh(50)) @@ ("Direct Debt" :> Lakh(75)) @@
            ("Total" :> Lakh(size))
      [] strategy = "Aggressive" /\ size > 5 * LakhPerCrore ->
            ("Equity AIF" :> Pct(size, 40)) @@ ("Equity PMS" :> Pct(size, 20)) @@
            ("Equity Mutual Funds" :> Pct(size, 15)) @@
            ("Debt AIF" :> Pct(size, 10)) @@ ("Debt Mutual Funds" :> Pct(size, 5)) @@
            ("Direct Debt" :> Pct(size, 10)) @@ ("Total" :> Lakh(size))
      [] strategy = "Moderate" ->
            ("Equity PMS" :> Pct(size, 25)) @@ ("Equity Mutual Funds" :> Pct(size, 35)) @@
            ("Debt Mutual Funds" :> Pct(size, 20)) @@ ("Direct Debt" :> Pct(size, 20)) @@
            ("Total" :> Lakh(size))
      [] strategy = "Conservative" ->
            ("Equity PMS" :> Pct(size, 10)) @@ ("Equity Mutual Funds" :> Pct(size, 30)) @@
            ("Debt Mutual Funds" :> Pct(size, 30)) @@ ("Direct Debt" :> Pct(size, 30)) @@
            ("Total" :> Lakh(size))
      [] OTHER -> ("error" :> "Invalid strategy or portfolio size")

\* lines 529-587 for a recognized strategy, as the doubles the code computes:
\* the fixed amounts are the literals, the others portfolioSize times a
\* decimal literal, and Total is portfolioSize
StandardAllocationDoubles(strategy, size) ==
    CASE strategy = "Ultra Aggressive" ->
            ("AIF" :> PctDouble(size, 60)) @@ ("PMS" :> PctDouble(size, 25)) @@
            ("Mutual Funds" :> PctDouble(size, 15)) @@ ("Total" :> InCrores(size))
      [] strategy = "Aggressive" /\ size <= 2 * LakhPerCrore ->
            ("Equity PMS" :> Literal(50)) @@ ("Equity Mutual Funds" :> Literal(100)) @@
            ("Debt Mutual Funds" :> Literal(25)) @@ ("Direct Debt" :> Literal(25)) @@
            ("Total" :> InCrores(size))
      [] strategy = "Aggressive" /\ size > 2 * LakhPerCrore
                                 /\ size <= 5 * LakhPerCrore ->
            ("Equity AIF" :> Literal(200)) @@ ("Equity PMS" :> Literal(100)) @@
            ("Equity Mutual Funds" :> Literal(75)) @@
            ("Debt Mutual Funds" :> Literal(50)) @@ ("Direct Debt" :> Literal(75)) @@
            ("Total" :> InCrores(size))
      [] strategy = "Aggressive" /\ size > 5 * LakhPerCrore ->
            ("Equity AIF" :> PctDouble(size, 40)) @@ ("Equity PMS" :> PctDouble(size, 20)) @@
            ("Equity Mutual Funds" :> PctDouble(size, 15)) @@
            ("Debt AIF" :> PctDouble(size, 10)) @@ ("Debt Mutual Funds" :> PctDouble(size, 5)) @@
            ("Direct Debt" :> PctDouble(size, 10)) @@ ("Total" :> InCrores(size))
      [] strategy = "Moderate" ->
            ("Equity PMS" :> PctDouble(size, 25)) @@
            ("Equity Mutual Funds" :> PctDouble(size, 35)) @@
            ("Debt Mutual Funds" :> PctDouble(size, 20)) @@
            ("Direct Debt" :> PctDouble(size, 20)) @@ ("Total" :> InCrores(size))
      [] strategy = "Conservative" ->
            ("Equity PMS" :> PctDouble(size, 10)) @@
            ("Equity Mutual Funds" :> PctDouble(size, 30)) @@
            ("Debt Mutual Funds" :> PctDouble(size, 30)) @@
            ("Direct Debt" :> PctDouble(size, 30)) @@ ("Total" :> InCrores(size))

\* calculateAllocation with the small-portfolio test written < 1 instead of <= 1
calculateAllocationStrictSmall(strategy, size) ==
    IF size < LakhPerCrore THEN SmallAllocation(strategy, size)
    ELSE IF strategy = "Conservative" /\ size <= 2 * LakhPerCrore
        THEN SmallSplit(size, 40, 30, 30)
    ELSE StandardAllocation(strategy, size)

calculateAllocation(strategy, size) ==
    IF size <= LakhPerCrore THEN SmallAllocation(strategy, size)
    ELSE IF strategy = "Conservative" /\ size <= 2 * LakhPerCrore
        THEN SmallSplit(size, 40, 30, 30)
    ELSE StandardAllocation(strategy, size)

\* a row of the Ultra Aggressive table, amounts in lakh
UltraRow(aif, pms, mf) ==
    ("AIF" :> aif) @@ ("PMS" :> pms) @@ ("Mutual Funds" :> mf)

\* a row of the other three tables, amounts in lakh
Row(eAif, ePms, eMf, dAif, dMf, dd) ==
    ("Equity AIF" :> eAif) @@ ("Equity PMS" :> ePms) @@
    ("Equity Mutual Funds" :> eMf) @@ ("Debt AIF" :> dAif) @@
    ("Debt Mutual Funds" :> dMf) @@ ("Direct Debt" :> dd)

ultraAggressiveLookup ==
    (2 :> UltraRow(120, 50, 30)) @@
    (5 :> UltraRow(300, 125, 75)) @@
    (10 :> UltraRow(600, 250, 150)) @@
    (15 :> UltraRow(900, 375, 225)) @@
    (20 :> UltraRow(1200, 500, 300)) @@
    (25 :> UltraRow(1500, 625, 375))

aggressiveLookup ==
    (2 :> Row(0, 50, 100, 0, 25, 25)) @@
    (5 :> Row(200, 100, 75, 0, 50, 75)) @@
    (10 :> Row(400, 200, 150, 100, 50, 100)) @@
    (15 :> Row(600, 300, 225, 150, 75, 150)) @@
    (20 :> Row(800, 400, 300, 200, 100, 200)) @@
    (25 :> Row(1000, 500, 375, 250, 125, 250))

moderateLookup ==
    (2 :> Row(0, 50, 70, 0, 40, 40)) @@
    (5 :> Row(0, 125, 175, 0, 100, 100)) @@
    (10 :> Row(0, 250, 350, 0, 200, 200)) @@
    (15 :> Row(0, 375, 525, 0, 300, 300)) @@
    (20 :> Row(0, 500, 700, 0, 400, 400)) @@
    (25 :> Row(0, 625, 875, 0, 500, 500))

conservativeLookup ==
    (2 :> Row(0, 0, 80, 0, 60, 60)) @@
    (5 :> Row(0, 50, 150, 0, 150, 150)) @@
    (10 :> Row(0, 100, 300, 0, 300, 300)) @@
    (15 :> Row(0, 150, 450, 0, 450, 450)) @@
    (20 :> Row(0, 200, 600, 0, 600, 600)) @@
    (25 :> Row(0, 250, 750, 0, 750, 750))

LookupTable(strategy) ==
    CASE strategy = "Ultra Aggressive" -> ultraAggressiveLookup
      [] strategy = "Aggressive" -> aggressiveLookup
      [] strategy = "Moderate" -> moderateLookup
      [] strategy = "Conservative" -> conservativeLookup

\* the checkpoints, in crore
Checkpoints == {2, 5, 10, 15, 20, 25}

\* the key of the first range with portfolioSize <= range.max; the last range
\* (max: Infinity) has key 25
RangeKey(size) ==
    LET fits == {c \in Checkpoints : size <= c * LakhPerCrore}
    IN  IF fits = {} THEN 25
        ELSE CHOOSE c \in fits : \A d \in fits : c <= d

\* Scale with the scaling factor left out: the row as it stands in the table
ScaleUnscaled(valueLakh, size, rangeKey) == valueLakh * UnitsPerLakh

\* lines 702-707: value * scalingFactor with scalingFactor =
\* portfolioSize / rangeKey, for a table value in lakh; the double the code
\* computes
ScaleDouble(valueLakh, size, rangeKey) ==
    LET scalingFactor == Over(InCrores(size), rangeKey)
    IN  Times(Literal(valueLakh), scalingFactor)

\* value * scalingFactor, to the nearest unit
Scale(valueLakh, size, rangeKey) == Units(ScaleDouble(valueLakh, size, rangeKey))

\* lines 692-716: the row of rangeKey scaled, with Total set to the size
ScaledRow(strategy, size, rangeKey) ==
    LET baseAllocation == LookupTable(strategy)[rangeKey]
    IN  [k \in DOMAIN baseAllocation |-> Scale(baseAllocation[k], size, rangeKey)]
            @@ ("Total" :> Lakh(size))

\* lines 692-716, as the doubles the code computes: each value of the row
\* times scalingFactor, and Total set to portfolioSize
ScaledRowDoubles(strategy, size, rangeKey) ==
    LET baseAllocation == LookupTable(strategy)[rangeKey]
    IN  [k \in DOMAIN baseAllocation |-> ScaleDouble(baseAllocation[k], size, rangeKey)]
            @@ ("Total" :> InCrores(size))

\* getPredefinedAllocation without the fixed-value case of lines 695-699: the
\* Aggressive 2-5 crore band scaled like every other band
getPredefinedAllocationScaledBand(strategy, size) ==
    IF strategy \notin Recognized THEN ("error" :> "Invalid strategy")
    ELSE IF size <= LakhPerCrore THEN calculateAllocation(strategy, size)
    ELSE IF strategy = "Conservative" /\ size <= 2 * LakhPerCrore
        THEN calculateAllocation(strategy, size)
    ELSE ScaledRow(strategy, size, RangeKey(size))

\* getPredefinedAllocation with the Conservative test written < 2 instead of <= 2
getPredefinedAllocationStrictTwo(strategy, size) ==
    IF strategy \notin Recognized THEN ("error" :> "Invalid strategy")
    ELSE IF size <= LakhPerCrore THEN calculateAllocation(strategy, size)
    ELSE IF strategy = "Conservative" /\ size < 2 * LakhPerCrore
        THEN calculateAllocation(strategy, size)
    ELSE IF strategy = "Aggressive" /\ size > 2 * LakhPerCrore
                                    /\ size <= 5 * LakhPerCrore
        THEN calculateAllocation(strategy, size)
    ELSE ScaledRow(strategy, size, RangeKey(size))

\* getPredefinedAllocation with the small-portfolio case of lines 665-669 tested
\* before the strategy of lines 640-652
getPredefinedAllocationSmallFirst(strategy, size) ==
    IF size <= LakhPerCrore THEN calculateAllocation(strategy, size)
    ELSE IF strategy \notin Recognized THEN ("error" :> "Invalid strategy")
    ELSE IF strategy = "Conservative" /\ size <= 2 * LakhPerCrore
        THEN calculateAllocation(strategy, size)
    ELSE IF strategy = "Aggressive" /\ size > 2 * LakhPerCrore
                                    /\ size <= 5 * LakhPerCrore
        THEN calculateAllocation(strategy, size)
    ELSE ScaledRow(strategy, size, RangeKey(size))

getPredefinedAllocation(strategy, size) ==
    IF strategy \notin Recognized THEN ("error" :> "Invalid strategy")
    ELSE IF size <= LakhPerCrore THEN calculateAllocation(strategy, size)
    ELSE IF strategy = "Conservative" /\ size <= 2 * LakhPerCrore
        THEN calculateAllocation(strategy, size)
    ELSE LET rangeKey == RangeKey(size)
         IN  IF rangeKey \in DOMAIN LookupTable(strategy) THEN
                 IF strategy = "Aggressive" /\ size > 2 * LakhPerCrore
                                            /\ size <= 5 * LakhPerCrore
                    THEN calculateAllocation(strategy, size)
                    ELSE ScaledRow(strategy, size, rangeKey)
             ELSE calculateAllocation(strategy, size)

getPortfolioAllocation(strategy, size) == getPredefinedAllocation(strategy, size)

----------------------------------------------------------------------------
(* src/modules/allocation.js: the asset-class split and the product-type view *)

\* generateAssetClassAllocation with the small Aggressive debt share counting
\* the debt mutual funds (15%) without the direct debt (10%)
generateAssetClassAllocationDebtFundsOnly(category, size) ==
    IF size <= LakhPerCrore /\ category \in Recognized THEN
        CASE category = "Ultra Aggressive" -> [equity |-> 100, debt |-> 0]
          [] category = "Aggressive" -> [equity |-> 75, debt |-> 15]
          [] category = "Moderate" -> [equity |-> 60, debt |-> 40]
          [] category = "Conservative" -> [equity |-> 40, debt |-> 60]
    ELSE IF category = "Conservative" /\ size <= 2 * LakhPerCrore THEN
        [equity |-> 40, debt |-> 60]
    ELSE
        CASE category = "Ultra Aggressive" -> [equity |-> 90, debt |-> 10]
          [] category = "Aggressive" -> [equity |-> 80, debt |-> 20]
          [] category = "Moderate" -> [equity |-> 60, debt |-> 40]
          [] category = "Conservative" -> [equity |-> 40, debt |-> 60, goldSilver |-> 0]
          [] OTHER -> [equity |-> 60, debt |-> 40, goldSilver |-> 0]

\* generateAssetClassAllocation without the branch for small portfolios
generateAssetClassAllocationNoSmallBand(category, size) ==
    IF category = "Conservative" /\ size <= 2 * LakhPerCrore THEN
        [equity |-> 40, debt |-> 60]
    ELSE
        CASE category = "Ultra Aggressive" -> [equity |-> 90, debt |-> 10]
          [] category = "Aggressive" -> [equity |-> 80, debt |-> 20]
          [] category = "Moderate" -> [equity |-> 60, debt |-> 40]
          [] category = "Conservative" -> [equity |-> 40, debt |-> 60, goldSilver |-> 0]
          [] OTHER -> [equity |-> 60, debt |-> 40, goldSilver |-> 0]

generateAssetClassAllocation(category, size) ==
    IF size <= LakhPerCrore /\ category \in Recognized THEN
        CASE category = "Ultra Aggressive" -> [equity |-> 100, debt |-> 0]
          [] category = "Aggressive" -> [equity |-> 75, debt |-> 25]
          [] category = "Moderate" -> [equity |-> 60, debt |-> 40]
          [] category = "Conservative" -> [equity |-> 40, debt |-> 60]
    ELSE IF category = "Conservative" /\ size <= 2 * LakhPerCrore THEN
        [equity |-> 40, debt |-> 60]
    ELSE
        CASE category = "Ultra Aggressive" -> [equity |-> 90, debt |-> 10]
          [] category = "Aggressive" -> [equity |-> 80, debt |-> 20]
          [] category = "Moderate" -> [equity |-> 60, debt |-> 40]
          [] category = "Conservative" -> [equity |-> 40, debt |-> 60, goldSilver |-> 0]
          [] OTHER -> [equity |-> 60, debt |-> 40, goldSilver |-> 0]

\* Math.round((value / totalSize) * 100)
Percentage(value, totalSize) == Round(value * 100, totalSize)

\* lines 769-780: the equity product types written for the keys present
EquityProductTypes(allocation, totalSize) ==
    LET pc(k) == Percentage(allocation[k], totalSize)
        keys == {k \in Vehicles(allocation) : IncludesEquity(k)}
    IN  (IF "Equity Mutual Funds" \in keys
            THEN ("Large Cap" :> Round(pc("Equity Mutual Funds") * 4, 10)) @@
                 ("Mid Cap" :> Round(pc("Equity Mutual Funds") * 3, 10)) @@
                 ("Small Cap" :> Round(pc("Equity Mutual Funds") * 3, 10))
            ELSE <<>>) @@
        (IF "Equity PMS" \in keys
            THEN ("PMS" :> pc("Equity PMS")) ELSE <<>>) @@
        (IF "Equity AIF" \in keys
            THEN ("AIF" :> pc("Equity AIF")) ELSE <<>>)

\* lines 781-791: the debt product types written for the keys present
DebtProductTypes(allocation, totalSize) ==
    LET pc(k) == Percentage(allocation[k], totalSize)
        keys == {k \in Vehicles(allocation) : ~IncludesEquity(k) /\ IncludesDebt(k)}
    IN  (IF "Debt Mutual Funds" \in keys
            THEN ("Government Bonds" :> Round(pc("Debt Mutual Funds"), 2)) @@
                 ("Corporate Bonds" :> Round(pc("Debt Mutual Funds"), 2))
            ELSE <<>>) @@
        (IF "Direct Debt" \in keys
            THEN ("Fixed Deposits" :> pc("Direct Debt")) ELSE <<>>) @@
        (IF "Debt AIF" \in keys
            THEN ("Structured Products" :> pc("Debt AIF")) ELSE <<>>)

\* lines 796-804
adjustProductTypes(productTypes, targetPercentage) ==
    LET currentTotal == SumOver(productTypes, DOMAIN productTypes)
    IN  IF currentTotal = 0 THEN productTypes
        ELSE [k \in DOMAIN productTypes |->
                 Round(productTypes[k] * targetPercentage, currentTotal)]

generateProductTypeAllocation(allocation, assetClasses) ==
    LET totalSize == IF "Total" \in DOMAIN allocation THEN allocation["Total"] ELSE 0
    IN  IF totalSize <= 0 THEN [equity |-> <<>>, debt |-> <<>>]
        ELSE [equity |-> adjustProductTypes(EquityProductTypes(allocation, totalSize),
                                            assetClasses.equity),
              debt |-> adjustProductTypes(DebtProductTypes(allocation, totalSize),
                                          assetClasses.debt)]

----------------------------------------------------------------------------
(* The allocation request: POST /api/asset-allocation *)

AllocInit ==
    /\ apc = "request"
    /\ riskCategory \in Categories
    /\ portfolioSize \in 0..MaxPortfolioLakh
    /\ detailedAllocation = <<>>
    /\ assetClassAllocation = <<>>
    /\ productTypeAllocation = <<>>

AllocIdle ==
    /\ apc = "idle"
    /\ riskCategory = "Moderate"
    /\ portfolioSize = 0
    /\ detailedAllocation = <<>>
    /\ assetClassAllocation = <<>>
    /\ productTypeAllocation = <<>>

RecIdle ==
    /\ rpc = "off"
    /\ clientData = <<>>
    /\ fetched = {}
    /\ recommendations = [equity |-> <<>>, debt |-> <<>>, goldSilver |-> <<>>]
    /\ awaiting = [kind |-> "none", stage |-> "none", retryCount |-> 0]
    /\ fetchResults = <<>>

\* generateAssetAllocation(clientData), lines 296-327
GenerateAssetAllocation ==
    /\ apc = "request"
    /\ apc' = "done"
    /\ detailedAllocation' = getPortfolioAllocation(riskCategory, portfolioSize)
    /\ assetClassAllocation' = generateAssetClassAllocation(riskCategory, portfolioSize)
    /\ productTypeAllocation' =
          generateProductTypeAllocation(
              getPortfolioAllocation(riskCategory, portfolioSize),
              generateAssetClassAllocation(riskCategory, portfolioSize))
    /\ UNCHANGED <<riskCategory, portfolioSize, fetchVars, recVars, riskVars, proposalVars, profileVars, pdfVars, sizedVars>>

AllocNext == GenerateAssetAllocation

----------------------------------------------------------------------------
(* src/modules/externalProducts.js, src/modules/allProductsList.js and       *)
(* src/modules/products.js: the outbound product-listing calls               *)

\* API_CONFIG.retries
Retries == 2

\* the functions that go through fetchProductsByCode, by product code
ProductCodes == {"PMS", "ALTERNATIVE_FUNDS", "UNLISTED_STOCKS"}

\* fetchAllMutualFunds, fetchMutualFundsBasedOnRisk, fetchMutualFundsFromBasket
MutualFundCalls == {"ALL_MF", "MF_RISK", "MF_BASKET"}

FetchKinds == ProductCodes \cup MutualFundCalls

NoResponse == [outcome |-> "none", status |-> 0, shape |-> "empty", len |-> 0]

\* the request rejected: network error, timeout, or a status outside 2xx
Thrown == [outcome |-> "throw", status |-> 0, shape |-> "empty", len |-> 0]

Resolved(status, shape, len) ==
    [outcome |-> "ok", status |-> status, shape |-> shape, len |-> len]

\* What a request can come back with.  The shape of response.data: "empty" (no
\* body), "schemes" / "products" / "dataArray" (an object whose schemes /
\* products / data field is an array of len items; for the basket call len
\* counts the schemes of the named basket that pass the filter), "array" (an
\* array of len items), "object" (any other object), "text" (a string).
Responses ==
    {Thrown, Resolved(204, "empty", 0), Resolved(200, "empty", 0),
     Resolved(200, "object", 0)}
    \cup {Resolved(200, sh, n) :
            sh \in {"schemes", "products", "dataArray", "array"}, n \in 0..MaxItems}
    \cup {Resolved(200, "text", n) : n \in 1..MaxItems}

\* a value handed back: an array or a string with its length, or an object,
\* which has no length
Value(type, len) == [type |-> type, len |-> len]

\* data.length > 0
LengthPositive(v) == v.type # "object" /\ v.len > 0

\* response.data as a value
DataOf(r) ==
    CASE r.shape \in {"array"} -> Value("array", r.len)
      [] r.shape = "text" -> Value("text", r.len)
      [] OTHER -> Value("object", 0)

\* lines 70-92 of fetchProductsByCode: what it returns for a response that
\* did not throw
ReturnedData(productCode, r) ==
    IF r.status = 200 /\ r.shape # "empty" THEN
        IF productCode = "PMS" /\ r.shape = "schemes" THEN Value("array", r.len)
        ELSE IF productCode = "UNLISTED_STOCKS" /\ r.shape = "products"
            THEN Value("array", r.len)
        ELSE DataOf(r)
    ELSE Value("array", 0)

\* getMockProductData(productCode).length
MockLength(productCode) ==
    CASE productCode = "PMS" -> 2
      [] productCode = "ALTERNATIVE_FUNDS" -> 2
      [] productCode = "UNLISTED_STOCKS" -> 3

Result(source, v) == [source |-> source, type |-> v.type, len |-> v.len]

NoResult == [source |-> "none", type |-> "array", len |-> 0]

\* fetchPMS, fetchAlternativeFunds, fetchUnlistedStocks: the data when its
\* length is positive, the mock data otherwise
WrapperResult(productCode, data) ==
    IF LengthPositive(data) THEN Result("api", data)
    ELSE Result("mock", Value("array", MockLength(productCode)))

\* fetchAllMutualFunds, lines 25-66; getMockMutualFunds returns 2 funds
fetchAllMutualFundsResult(r) ==
    IF r.outcome = "ok" /\ r.status = 200 /\ r.shape # "empty"
        THEN Result("api", DataOf(r))
        ELSE Result("mock", Value("array", 2))

\* fetchMutualFundsBasedOnRisk, lines 610-684
fetchMutualFundsBasedOnRiskResult(r) ==
    IF r.outcome = "ok" /\ r.status = 200 /\ r.shape = "dataArray"
        THEN Result("api", Value("array", r.len))
        ELSE Result("empty", Value("array", 0))

\* fetchMutualFundsFromBasket, lines 691-767
fetchMutualFundsFromBasketResult(r) ==
    IF r.outcome = "ok" /\ r.status = 200 /\ r.shape = "dataArray" /\ r.len > 0
        THEN Result("api", Value("array", r.len))
        ELSE Result("empty", Value("array", 0))

\* retryCount < API_CONFIG.retries with the test written <=
RetryAllowedOnceMore(count) == count <= Retries

\* line 98: retryCount < API_CONFIG.retries
RetryAllowed(count) == count < Retries

\* What the call does when a request comes back: wait for the retry delay, or
\* return.  Only fetchProductsByCode retries.
FetchStep(kind, count, r) ==
    IF kind \in ProductCodes THEN
        IF r.outcome = "throw" THEN
            IF RetryAllowed(count) THEN [next |-> "delay", result |-> NoResult]
            ELSE [next |-> "done",
                  result |-> WrapperResult(kind, Value("array", 0))]
        ELSE [next |-> "done", result |-> WrapperResult(kind, ReturnedData(kind, r))]
    ELSE [next |-> "done",
          result |-> CASE kind = "ALL_MF" -> fetchAllMutualFundsResult(r)
                       [] kind = "MF_RISK" -> fetchMutualFundsBasedOnRiskResult(r)
                       [] kind = "MF_BASKET" -> fetchMutualFundsFromBasketResult(r)]

FetchInit ==
    /\ fpc = "idle"
    /\ fkind \in FetchKinds
    /\ retryCount = 0
    /\ requests = 0
    /\ response = NoResponse
    /\ fresult = NoResult

FetchIdle ==
    /\ fpc = "off"
    /\ fkind = "PMS"
    /\ retryCount = 0
    /\ requests = 0
    /\ response = NoResponse
    /\ fresult = NoResult

\* the fetch function is called and issues its first request
CallFetch ==
    /\ fpc = "idle"
    /\ fpc' = "pending"
    /\ requests' = 1
    /\ UNCHANGED <<fkind, retryCount, response, fresult, allocVars, recVars, riskVars, proposalVars, profileVars, pdfVars, sizedVars>>

\* the await of the request ends: the code runs on to the retry delay or to its return
Respond ==
    /\ fpc = "pending"
    /\ \E r \in Responses :
          LET step == FetchStep(fkind, retryCount, r)
          IN  /\ response' = r
              /\ fpc' = step.next
              /\ fresult' = step.result
    /\ UNCHANGED <<fkind, retryCount, requests, allocVars, recVars, riskVars, proposalVars, profileVars, pdfVars, sizedVars>>

\* the retry delay has passed: fetchProductsByCode(productCode, returns, retryCount + 1)
TimerFires ==
    /\ fpc = "delay"
    /\ fpc' = "pending"
    /\ retryCount' = retryCount + 1
    /\ requests' = requests + 1
    /\ UNCHANGED <<fkind, response, fresult, allocVars, recVars, riskVars, proposalVars, profileVars, pdfVars, sizedVars>>

FetchNext == CallFetch \/ Respond \/ TimerFires

----------------------------------------------------------------------------
(* src/modules/products.js: recommendProducts.  Portfolio sizes are in lakh   *)
(* of rupees, as above.  Of every recommended vehicle the model keeps its    *)
(* allocation percentage and where its product list came from.               *)

\* the minimum tickets: 50 lakh, 1 crore, 1 crore, 5 crore
PMSMinimum == 50

EquityAIFMinimum == 100

UnlistedStocksMinimum == 100

DebtAIFMinimum == 500

mapRiskCategoryToLevel(category) ==
    CASE category = "Conservative" -> "conservative"
      [] category = "Moderate" -> "moderate"
      [] category = "Aggressive" -> "aggressive"
      [] OTHER -> "moderate"

\* productDatabase[class][vehicle][level].length
CatalogLength(class, vehicle, level) ==
    IF vehicle = "mutualFunds"
        THEN (IF class = "equity" /\ level = "aggressive" THEN 3 ELSE 2)
        ELSE 1

\* a product list: where it came from ("api", "mock", "catalog", "inline"),
\* the catalog level it was read at, and its length
Products(source, level, len) == [source |-> source, level |-> level, len |-> len]

Catalog(class, vehicle, level) ==
    Products("catalog", level, CatalogLength(class, vehicle, level))

Entry(allocation, products) == [allocation |-> allocation, products |-> products]

\* recommendations[vehicle] = entry, inside an if
When(cond, vehicle, entry) == IF cond THEN vehicle :> entry ELSE <<>>

\* formatProductData(rawProducts, productType).length: [] unless given an array
formatProductData(rawProducts) ==
    IF rawProducts.type = "array" THEN rawProducts.len ELSE 0

\* formatted.length > 0 ? formatted : productDatabase[class][vehicle][riskLevel]
FormattedOrCatalog(rawProducts, class, vehicle, level) ==
    IF formatProductData(rawProducts) > 0
        THEN Products(rawProducts.source, "none", formatProductData(rawProducts))
        ELSE Catalog(class, vehicle, level)

\* the minimum-ticket test without the minimum
PMSGateNoMinimum(productTypeAllocation_, size) == productTypeAllocation_.pms > 0

\* line 309
PMSGate(productTypeAllocation_, size) ==
    productTypeAllocation_.pms > 0 /\ size >= PMSMinimum

\* line 338
EquityAIFGate(productTypeAllocation_, size) ==
    productTypeAllocation_.aif > 0 /\ size >= EquityAIFMinimum

\* line 367
UnlistedStocksGate(productTypeAllocation_, size) ==
    size >= UnlistedStocksMinimum /\ productTypeAllocation_.unlistedStocks > 0

\* line 549
DebtAIFGate(productTypeAllocation_, size) ==
    productTypeAllocation_.aif > 0 /\ size >= DebtAIFMinimum

\* the default left out
MutualFundsDefaultOmitted(made, default) == made

\* lines 391-398 and 559-590: the 100% mutual-funds default of a class in
\* which none of the tested vehicles was produced
MutualFundsDefault(made, default) ==
    IF DOMAIN made = {} THEN "mutualFunds" :> default ELSE made

\* the branch of generateEquityRecommendations / generateDebtRecommendations
Branch(data) ==
    CASE data.shape = "noAssetClassAllocation" -> "fallback"
      [] data.shape = "noProductTypeAllocation" -> "defaultTypes"
      [] OTHER -> "normal"

\* generateEquityRecommendations, lines 240-411, given what the fetches it
\* awaits returned
generateEquityRecommendations(riskLevel, data, size, pmsProducts, alternativeFunds, unlistedStocks) ==
    CASE Branch(data) = "fallback" ->
            "mutualFunds" :> Entry(100, Catalog("equity", "mutualFunds", "moderate"))
      [] Branch(data) = "defaultTypes" ->
            ("mutualFunds" :> Entry(80, Catalog("equity", "mutualFunds", riskLevel)))
            @@ ("etf" :> Entry(20, Products("inline", "none", 1)))
      [] OTHER ->
            LET pta == data.equity
                made ==
                    When(pta.mutualFunds > 0, "mutualFunds",
                         Entry(pta.mutualFunds,
                               Catalog("equity", "mutualFunds", riskLevel)))
                    @@ When(PMSGate(pta, size), "pms",
                            Entry(pta.pms,
                                  FormattedOrCatalog(pmsProducts, "equity", "pms",
                                                     riskLevel)))
                    @@ When(EquityAIFGate(pta, size), "aif",
                            Entry(pta.aif,
                                  FormattedOrCatalog(alternativeFunds, "equity",
                                                     "aif", riskLevel)))
                unlisted ==
                    When(UnlistedStocksGate(pta, size)
                            /\ formatProductData(unlistedStocks) > 0,
                         "unlistedStocks",
                         Entry(pta.unlistedStocks,
                               Products(unlistedStocks.source, "none",
                                        formatProductData(unlistedStocks))))
            IN  MutualFundsDefault(made,
                    Entry(100, Catalog("equity", "mutualFunds", riskLevel)))
                @@ unlisted

\* lines 464-470: the basket's funds, the regular API's when the basket gave none
MutualFundProducts(basket, regular) == IF basket.len = 0 THEN regular ELSE basket

\* mutualFundProducts.length > 0 ? mutualFundProducts : productDatabase.debt.mutualFunds[level]
FundsOrCatalog(funds, level) ==
    IF funds.len > 0 THEN Products(funds.source, "none", funds.len)
    ELSE Catalog("debt", "mutualFunds", level)

\* whether generateDebtRecommendations fetches mutual funds
DebtFetchesFunds(data, size) ==
    CASE Branch(data) = "fallback" -> FALSE
      [] Branch(data) = "defaultTypes" -> TRUE
      [] OTHER -> \/ data.debt.mutualFunds > 0
                  \/ ~(data.debt.direct > 0) /\ ~DebtAIFGate(data.debt, size)

\* generateDebtRecommendations, lines 420-603, given the mutual funds fetched
generateDebtRecommendations(riskLevel, data, size, funds) ==
    CASE Branch(data) = "fallback" ->
            "mutualFunds" :> Entry(100, Catalog("debt", "mutualFunds", "moderate"))
      [] Branch(data) = "defaultTypes" ->
            ("mutualFunds" :> Entry(70, FundsOrCatalog(funds, "moderate")))
            @@ ("direct" :> Entry(30, Products("inline", "none", 1)))
      [] OTHER ->
            LET pta == data.debt
                made ==
                    When(pta.mutualFunds > 0, "mutualFunds",
                         Entry(pta.mutualFunds, FundsOrCatalog(funds, riskLevel)))
                    @@ When(pta.direct > 0, "direct",
                            Entry(pta.direct, Catalog("debt", "direct", riskLevel)))
                    @@ When(DebtAIFGate(pta, size), "aif",
                            Entry(pta.aif, Catalog("debt", "aif", riskLevel)))
            IN  MutualFundsDefault(made, Entry(100, FundsOrCatalog(funds, riskLevel)))

\* generateGoldSilverRecommendations, lines 797-896; productDatabase.goldSilver
\* lists 3 ETFs and 3 physical products
generateGoldSilverRecommendations(data) ==
    LET gs == data.goldSilver
        etf(allocation) == "etf" :> Entry(allocation, Products("catalog", "none", 3))
        physical(allocation) ==
            "physical" :> Entry(allocation, Products("catalog", "none", 3))
    IN  IF Branch(data) = "fallback" \/ gs.allocation = 0 THEN <<>>
        ELSE IF Branch(data) = "defaultTypes" THEN etf(70) @@ physical(30)
        ELSE IF gs.etf > 0 /\ gs.physical > 0 THEN etf(gs.etf) @@ physical(gs.physical)
        ELSE IF gs.etf > 0 THEN etf(gs.etf)
        ELSE IF gs.physical > 0 THEN physical(gs.physical)
        ELSE etf(100)

\* lines 118-126 and 132: the input is rejected, or no portfolio size can be read
Throws(data) ==
    \/ data.shape \in {"noAssetAllocation", "noRiskProfile"}
    \/ data.portfolioSize = 0 /\ data.initialInvestmentAmount = <<>>

\* line 132: assetAllocation.portfolioSize || clientProfile...initialInvestmentAmount
PortfolioSizeOf(data) ==
    IF data.portfolioSize # 0 THEN data.portfolioSize
    ELSE data.initialInvestmentAmount[1]

\* lines 191-204
fallbackRecommendations ==
    [equity |-> "mutualFunds" :> Entry(100, Catalog("equity", "mutualFunds", "moderate")),
     debt |-> "mutualFunds" :> Entry(100, Catalog("debt", "mutualFunds", "moderate")),
     goldSilver |-> <<>>]

\* the error leaves recommendProducts
Rejected(fallback) ==
    [rpc |-> "rejected",
     recommendations |-> [equity |-> <<>>, debt |-> <<>>, goldSilver |-> <<>>]]

\* lines 186-212: the outer catch returns the fallback response
Caught(fallback) == [rpc |-> "resolved", recommendations |-> fallback]

\* the portfolio sizes requested: none, and each minimum ticket and one lakh less
RequestSizes ==
    {0, PMSMinimum - 1, PMSMinimum, EquityAIFMinimum - 1, EquityAIFMinimum,
     DebtAIFMinimum - 1, DebtAIFMinimum}

\* product-type percentages: each vehicle's is zero (or absent, which compares
\* the same) or not
EquityTypes ==
    [mutualFunds : {0, 60}, pms : {0, 25}, aif : {0, 10}, unlistedStocks : {0, 5}]

DebtTypes == [mutualFunds : {0, 70}, direct : {0, 20}, aif : {0, 10}]

GoldSilverTypes ==
    {[allocation |-> 0, etf |-> 0, physical |-> 0]}
    \cup [allocation : {5}, etf : {0, 70}, physical : {0, 30}]

\* the shapes of clientData: complete, or lacking assetAllocation, riskProfile,
\* assetAllocation.assetClassAllocation or assetAllocation.productTypeAllocation
Shapes ==
    {"full", "noAssetAllocation", "noRiskProfile", "noAssetClassAllocation",
     "noProductTypeAllocation"}

\* productTypeAllocation[key] as the tests of products.js read it: a key the
\* object does not have reads undefined, and undefined > 0 is false as 0 > 0 is
ReadType(types, key) == IF key \in DOMAIN types THEN types[key] ELSE 0

\* the portfolio sizes of the generated allocations handed on, in lakh
GeneratedSizes == {PMSMinimum, 10 * LakhPerCrore}

\* clientData whose assetAllocation is the object generateAssetAllocation
\* returns for the category and the size (allocation.js, lines 316-323), as
\* products.js reads it: productTypeAllocation.equity.mutualFunds / pms / aif /
\* unlistedStocks, productTypeAllocation.debt.mutualFunds / direct / aif and
\* assetClassAllocation.goldSilver
RequestReading(category, size, types, classes) ==
    [shape |-> "full", riskCategory |-> category, portfolioSize |-> size,
     initialInvestmentAmount |-> <<>>,
     equity |-> [mutualFunds |-> ReadType(types.equity, "mutualFunds"),
                 pms |-> ReadType(types.equity, "pms"),
                 aif |-> ReadType(types.equity, "aif"),
                 unlistedStocks |-> ReadType(types.equity, "unlistedStocks")],
     debt |-> [mutualFunds |-> ReadType(types.debt, "mutualFunds"),
               direct |-> ReadType(types.debt, "direct"),
               aif |-> ReadType(types.debt, "aif")],
     goldSilver |-> [allocation |-> ReadType(classes, "goldSilver"),
                     etf |-> 0, physical |-> 0]]

\* the request for the allocation generateAssetAllocation returns
GeneratedRequest(category, size) ==
    RequestReading(category, size,
                   generateProductTypeAllocation(
                       getPortfolioAllocation(category, size),
                       generateAssetClassAllocation(category, size)),
                   generateAssetClassAllocation(category, size))

GeneratedRequests ==
    {GeneratedRequest(category, size) : category \in Recognized, size \in GeneratedSizes}

\* The requests.  Fields the code cannot read in a shape are left at zero, and
\* clientProfile's investment amount, read only when assetAllocation has no
\* portfolio size, is absent otherwise.
HandWrittenRequests ==
    {d \in [shape : Shapes, riskCategory : Recognized, portfolioSize : RequestSizes,
            initialInvestmentAmount : {<<>>, <<DebtAIFMinimum>>},
            equity : EquityTypes, debt : DebtTypes, goldSilver : GoldSilverTypes] :
        /\ d.portfolioSize # 0 => d.initialInvestmentAmount = <<>>
        /\ d.shape = "noRiskProfile" => d.riskCategory = "Moderate"
        /\ d.shape # "full" =>
              /\ \A v \in DOMAIN d.equity : d.equity[v] = 0
              /\ \A v \in DOMAIN d.debt : d.debt[v] = 0
              /\ d.goldSilver.etf = 0 /\ d.goldSilver.physical = 0
        /\ d.shape \in {"noAssetAllocation", "noAssetClassAllocation"} =>
              d.goldSilver.allocation = 0}

\* the categories determineRiskCategory returns (risk.js, lines 202-212)
ScorerCategories == {"Conservative", "Moderate", "Aggressive", "Ultra-Aggressive"}

\* clientData whose riskProfile is the one assessRiskProfile returned, with an
\* assetAllocation that has asset classes and no productTypeAllocation
ScorerRequests ==
    {[shape |-> "noProductTypeAllocation", riskCategory |-> category,
      portfolioSize |-> PMSMinimum, initialInvestmentAmount |-> <<>>,
      equity |-> [mutualFunds |-> 0, pms |-> 0, aif |-> 0, unlistedStocks |-> 0],
      debt |-> [mutualFunds |-> 0, direct |-> 0, aif |-> 0],
      goldSilver |-> [allocation |-> 0, etf |-> 0, physical |-> 0]] :
        category \in ScorerCategories}

Requests == HandWrittenRequests \cup GeneratedRequests \cup ScorerRequests

\* not suspended on a fetch
NotAwaiting == [kind |-> "none", stage |-> "none", retryCount |-> 0]

\* suspended on the await of a fetch function whose request is in flight
\* ("pending"), or inside it on the retry delay of fetchProductsByCode ("delay")
Awaiting(kind, stage, count) == [kind |-> kind, stage |-> stage, retryCount |-> count]

\* nothing fetched yet: a fetch the code does not reach leaves its entry so
NoFetchResults == [kind \in FetchKinds |-> NoResult]

RecInit ==
    /\ rpc = "called"
    /\ clientData \in Requests
    /\ fetched = {}
    /\ recommendations = [equity |-> <<>>, debt |-> <<>>, goldSilver |-> <<>>]
    /\ awaiting = NotAwaiting
    /\ fetchResults = NoFetchResults

\* the fetches of generateEquityRecommendations in the order of its awaits:
\* lines 315, 344, 373
EquityFetches == <<"PMS", "ALTERNATIVE_FUNDS", "UNLISTED_STOCKS">>

\* whether generateEquityRecommendations reaches the await of the fetch
EquityFetchReached(data, size, kind) ==
    /\ Branch(data) = "normal"
    /\ CASE kind = "PMS" -> PMSGate(data.equity, size)
         [] kind = "ALTERNATIVE_FUNDS" -> EquityAIFGate(data.equity, size)
         [] kind = "UNLISTED_STOCKS" -> UnlistedStocksGate(data.equity, size)

\* the places in EquityFetches, from place on, of the fetches the code reaches
EquityFetchesAhead(data, size, place) ==
    {i \in place..Len(EquityFetches) : EquityFetchReached(data, size, EquityFetches[i])}

\* the place of a fetch in EquityFetches
PlaceOf(kind) == CHOOSE i \in 1..Len(EquityFetches) : EquityFetches[i] = kind

\* generateEquityRecommendations runs on from the await at place - 1 (from its
\* start when place = 1): to the await of the next fetch it reaches, issuing the
\* request, or to its return, when line 138 stores what it built and the
\* function's local results are gone
EquityRunsOn(data, place, results, fetchedSoFar, built) ==
    LET size == PortfolioSizeOf(data)
        level == mapRiskCategoryToLevel(data.riskCategory)
        ahead == EquityFetchesAhead(data, size, place)
    IN  IF ahead # {} THEN
            LET next == EquityFetches[CHOOSE i \in ahead : \A j \in ahead : i <= j]
            IN  [rpc |-> "called",
                 awaiting |-> Awaiting(next, "pending", 0),
                 fetched |-> fetchedSoFar \cup {<<"equity", next>>},
                 fetchResults |-> results,
                 recommendations |-> built]
        ELSE [rpc |-> "debt",
              awaiting |-> NotAwaiting,
              fetched |-> fetchedSoFar,
              fetchResults |-> NoFetchResults,
              recommendations |->
                  [built EXCEPT !.equity =
                      generateEquityRecommendations(level, data, size,
                          results["PMS"], results["ALTERNATIVE_FUNDS"],
                          results["UNLISTED_STOCKS"])]]

\* generateDebtRecommendations is at its return: lines 149-160 store what it built
DebtReturns(data, results, fetchedSoFar, built) ==
    [rpc |-> "gold",
     awaiting |-> NotAwaiting,
     fetched |-> fetchedSoFar,
     fetchResults |-> NoFetchResults,
     recommendations |->
         [built EXCEPT !.debt =
             generateDebtRecommendations(mapRiskCategoryToLevel(data.riskCategory),
                 data, PortfolioSizeOf(data),
                 MutualFundProducts(results["MF_BASKET"], results["MF_RISK"]))]]

\* generateDebtRecommendations suspends on the request of a mutual-fund fetch
DebtAwaits(kind, results, fetchedSoFar, built) ==
    [rpc |-> "debt",
     awaiting |-> Awaiting(kind, "pending", 0),
     fetched |-> fetchedSoFar \cup {<<"debt", kind>>},
     fetchResults |-> results,
     recommendations |-> built]

\* recommendProducts is called and runs to its first await that waits for a
\* request: lines 111-138 and generateEquityRecommendations as far as its first
\* fetch.  An error thrown before the asset classes are built goes to the
\* outer catch.
RecommendEquity ==
    /\ rpc = "called"
    /\ awaiting = NotAwaiting
    /\ LET after ==
              IF Throws(clientData)
                  THEN [rpc |-> Caught(fallbackRecommendations).rpc,
                        awaiting |-> NotAwaiting,
                        fetched |-> fetched,
                        fetchResults |-> fetchResults,
                        recommendations |->
                            Caught(fallbackRecommendations).recommendations]
                  ELSE EquityRunsOn(clientData, 1, fetchResults, fetched,
                                    recommendations)
       IN  /\ rpc' = after.rpc
           /\ awaiting' = after.awaiting
           /\ fetched' = after.fetched
           /\ recommendations' = after.recommendations
           /\ fetchResults' = after.fetchResults
    /\ UNCHANGED <<clientData, allocVars, fetchVars, riskVars, proposalVars, profileVars, pdfVars, sizedVars>>

\* the request of the equity fetch awaited comes back.  fetchProductsByCode
\* goes to its retry delay (externalProducts.js, lines 98-102), or the fetch
\* function returns and generateEquityRecommendations runs on from lines 316,
\* 345, 374 to its next await or its return.
EquityFetchResponds ==
    /\ rpc = "called"
    /\ awaiting.stage = "pending"
    /\ \E step \in {FetchStep(awaiting.kind, awaiting.retryCount, r) : r \in Responses} :
          LET results == [fetchResults EXCEPT ![awaiting.kind] = step.result]
              after == EquityRunsOn(clientData, PlaceOf(awaiting.kind) + 1, results,
                                    fetched, recommendations)
          IN  IF step.next = "delay" THEN
                  /\ awaiting' = Awaiting(awaiting.kind, "delay", awaiting.retryCount)
                  /\ UNCHANGED <<rpc, fetched, recommendations, fetchResults>>
              ELSE
                  /\ fetchResults' = after.fetchResults
                  /\ rpc' = after.rpc
                  /\ awaiting' = after.awaiting
                  /\ fetched' = after.fetched
                  /\ recommendations' = after.recommendations
    /\ UNCHANGED <<clientData, allocVars, fetchVars, riskVars, proposalVars, profileVars, pdfVars, sizedVars>>

\* the retry delay has passed: fetchProductsByCode calls itself with
\* retryCount + 1 and issues the request again (externalProducts.js, lines 102-105)
RetryTimerFires ==
    /\ awaiting.stage = "delay"
    /\ awaiting' = Awaiting(awaiting.kind, "pending", awaiting.retryCount + 1)
    /\ UNCHANGED <<rpc, clientData, fetched, recommendations, fetchResults, allocVars, fetchVars, riskVars, proposalVars, profileVars, pdfVars, sizedVars>>

\* recommendProducts resumes at line 138 and calls generateDebtRecommendations
\* (lines 149-151), which runs to its first mutual-fund fetch or, fetching
\* nothing, to its return
RecommendDebt ==
    /\ rpc = "debt"
    /\ awaiting = NotAwaiting
    /\ LET after ==
              IF DebtFetchesFunds(clientData, PortfolioSizeOf(clientData))
                  THEN DebtAwaits("MF_BASKET", fetchResults, fetched, recommendations)
                  ELSE DebtReturns(clientData, fetchResults, fetched, recommendations)
       IN  /\ rpc' = after.rpc
           /\ awaiting' = after.awaiting
           /\ fetched' = after.fetched
           /\ recommendations' = after.recommendations
           /\ fetchResults' = after.fetchResults
    /\ UNCHANGED <<clientData, allocVars, fetchVars, riskVars, proposalVars, profileVars, pdfVars, sizedVars>>

\* the request of the mutual-fund fetch awaited comes back: after the basket,
\* the regular API is asked when the basket gave no funds (lines 464-469,
\* 523-528, 577-582); otherwise generateDebtRecommendations runs to its return
DebtFetchResponds ==
    /\ rpc = "debt"
    /\ awaiting.stage = "pending"
    /\ \E step \in {FetchStep(awaiting.kind, awaiting.retryCount, r) : r \in Responses} :
          LET results == [fetchResults EXCEPT ![awaiting.kind] = step.result]
              after ==
                  IF awaiting.kind = "MF_BASKET" /\ step.result.len = 0
                      THEN DebtAwaits("MF_RISK", results, fetched, recommendations)
                      ELSE DebtReturns(clientData, results, fetched, recommendations)
          IN  /\ fetchResults' = after.fetchResults
              /\ rpc' = after.rpc
              /\ awaiting' = after.awaiting
              /\ fetched' = after.fetched
              /\ recommendations' = after.recommendations
    /\ UNCHANGED <<clientData, allocVars, fetchVars, riskVars, proposalVars, profileVars, pdfVars, sizedVars>>

\* generateGoldSilverRecommendations, the summary and the return: lines 162-185
RecommendGoldSilver ==
    /\ rpc = "gold"
    /\ rpc' = "resolved"
    /\ recommendations' =
          [recommendations EXCEPT !.goldSilver =
              generateGoldSilverRecommendations(clientData)]
    /\ UNCHANGED <<clientData, fetched, awaiting, fetchResults, allocVars, fetchVars, riskVars, proposalVars, profileVars, pdfVars, sizedVars>>

RecNext ==
    \/ RecommendEquity
    \/ EquityFetchResponds
    \/ RetryTimerFires
    \/ RecommendDebt
    \/ DebtFetchResponds
    \/ RecommendGoldSilver

----------------------------------------------------------------------------
(* src/modules/risk.js: the risk scorer and the manual-allocation entry *)

\* the largest score, in absolute value, handed to determineRiskCategory directly
MaxScore == 40

\* the largest equity percentage of a manual allocation
MaxPercent == 100

\* "other" stands for any value that matches no case of the switch, a missing
\* answer included
MarketDropReactions ==
    {"sell_all", "sell_some", "do_nothing", "buy_some", "buy_more", "other"}

ReturnsVsStabilityPreferences ==
    {"stability", "mostly_stability", "balanced", "mostly_returns", "returns", "other"}

PreferredPortfolioStyles ==
    {"conservative", "moderately_conservative", "balanced", "moderately_aggressive",
     "aggressive", "other"}

InvestmentHorizons == {"short_term", "medium_term", "long_term", "other"}

\* "absent": clientProfile has no knowledgeAndExperience section
InvestmentKnowledges == {"beginner", "intermediate", "advanced", "other", "absent"}

\* maxAcceptableLoss, a number: the ends of each band and of the two
\* inconsistency tests
MaxAcceptableLosses == {5, 6, 10, 11, 15, 16, 20, 25, 26}

\* personalInfo.age: a number (given, or computed from a date of birth),
\* missing, or a date of birth that is no date (the computed age is NaN)
Age(given, years) == [given |-> given, years |-> years]

Ages ==
    {Age("number", n) : n \in {39, 40, 59, 60, 70}}
    \cup {Age("missing", 0), Age("invalid", 0)}

\* lines 47-65
MarketDropPoints(answer) ==
    CASE answer = "sell_all" -> 1
      [] answer = "sell_some" -> 2
      [] answer = "do_nothing" -> 3
      [] answer = "buy_some" -> 4
      [] answer = "buy_more" -> 5
      [] OTHER -> 3

\* the bands of lines 67-78 with the first test written < 5
MaxLossPointsStrict(loss) ==
    IF loss < 5 THEN 1
    ELSE IF loss <= 10 THEN 2
    ELSE IF loss <= 15 THEN 3
    ELSE IF loss <= 25 THEN 4
    ELSE 5

\* lines 67-78
MaxLossPoints(loss) ==
    IF loss <= 5 THEN 1
    ELSE IF loss <= 10 THEN 2
    ELSE IF loss <= 15 THEN 3
    ELSE IF loss <= 25 THEN 4
    ELSE 5

\* lines 80-99
ReturnsVsStabilityPoints(answer) ==
    CASE answer = "stability" -> 1
      [] answer = "mostly_stability" -> 2
      [] answer = "balanced" -> 3
      [] answer = "mostly_returns" -> 4
      [] answer = "returns" -> 5
      [] OTHER -> 3

\* lines 101-120
PortfolioStylePoints(answer) ==
    CASE answer = "conservative" -> 1
      [] answer = "moderately_conservative" -> 2
      [] answer = "balanced" -> 3
      [] answer = "moderately_aggressive" -> 4
      [] answer = "aggressive" -> 5
      [] OTHER -> 3

\* lines 122-137
HorizonPoints(answer) ==
    CASE answer = "short_term" -> 1
      [] answer = "medium_term" -> 2
      [] answer = "long_term" -> 3
      [] OTHER -> 2

\* lines 139-157
KnowledgePoints(answer) ==
    CASE answer = "beginner" -> 1
      [] answer = "intermediate" -> 2
      [] answer = "advanced" -> 3
      [] OTHER -> 1

\* lines 159-169 and calculateAgeFromDOB: a missing age counts as 40, and NaN
\* fails both comparisons
AgePoints(age) ==
    CASE age.given = "invalid" -> 3
      [] age.given = "missing" -> 2
      [] OTHER -> IF age.years >= 60 THEN 1 ELSE IF age.years >= 40 THEN 2 ELSE 3

calculateRiskScore(clientProfile) ==
    MarketDropPoints(clientProfile.marketDropReaction)
    + MaxLossPoints(clientProfile.maxAcceptableLoss)
    + ReturnsVsStabilityPoints(clientProfile.returnsVsStabilityPreference)
    + PortfolioStylePoints(clientProfile.preferredPortfolioStyle)
    + HorizonPoints(clientProfile.investmentHorizon)
    + KnowledgePoints(clientProfile.investmentKnowledge)
    + AgePoints(clientProfile.age)

\* determineRiskCategory with the first test written < 12
determineRiskCategoryStrict(riskScore) ==
    IF riskScore < 12 THEN "Conservative"
    ELSE IF riskScore <= 17 THEN "Moderate"
    ELSE IF riskScore <= 22 THEN "Aggressive"
    ELSE "Ultra-Aggressive"

determineRiskCategory(riskScore) ==
    IF riskScore <= 12 THEN "Conservative"
    ELSE IF riskScore <= 17 THEN "Moderate"
    ELSE IF riskScore <= 22 THEN "Aggressive"
    ELSE "Ultra-Aggressive"

Flag(type, message) == [type |-> type, message |-> message]

\* inconsistencies.push(flag) inside an if
PushIf(cond, flag) == IF cond THEN <<flag>> ELSE <<>>

StyleFlagAggressive ==
    Flag("risk_style_mismatch",
         "Risk score indicates Aggressive profile, but preferred portfolio style is Conservative")

StyleFlagConservative ==
    Flag("risk_style_mismatch",
         "Risk score indicates Conservative profile, but preferred portfolio style is Aggressive")

HorizonFlag ==
    Flag("horizon_risk_mismatch",
         "Aggressive risk profile with short-term investment horizon may not be suitable")

LossFlagAggressive ==
    Flag("loss_tolerance_mismatch",
         "Risk score indicates Aggressive profile, but maximum acceptable loss is low")

LossFlagConservative ==
    Flag("loss_tolerance_mismatch",
         "Risk score indicates Conservative profile, but maximum acceptable loss is high")

\* checkForInconsistencies with the short-horizon test left out
checkForInconsistenciesNoHorizon(clientProfile, category) ==
    PushIf(category = "Aggressive"
              /\ clientProfile.preferredPortfolioStyle
                    \in {"conservative", "moderately_conservative"},
           StyleFlagAggressive)
    \o PushIf(category = "Conservative"
                 /\ clientProfile.preferredPortfolioStyle
                       \in {"aggressive", "moderately_aggressive"},
              StyleFlagConservative)
    \o PushIf(category = "Aggressive" /\ clientProfile.maxAcceptableLoss <= 10,
              LossFlagAggressive)
    \o PushIf(category = "Conservative" /\ clientProfile.maxAcceptableLoss >= 20,
              LossFlagConservative)

\* lines 220-267
checkForInconsistencies(clientProfile, category) ==
    PushIf(category = "Aggressive"
              /\ clientProfile.preferredPortfolioStyle
                    \in {"conservative", "moderately_conservative"},
           StyleFlagAggressive)
    \o PushIf(category = "Conservative"
                 /\ clientProfile.preferredPortfolioStyle
                       \in {"aggressive", "moderately_aggressive"},
              StyleFlagConservative)
    \o PushIf(category = "Aggressive" /\ clientProfile.investmentHorizon = "short_term",
              HorizonFlag)
    \o PushIf(category = "Aggressive" /\ clientProfile.maxAcceptableLoss <= 10,
              LossFlagAggressive)
    \o PushIf(category = "Conservative" /\ clientProfile.maxAcceptableLoss >= 20,
              LossFlagConservative)

Assessment(riskScore, category, inconsistencies) ==
    [riskScore |-> riskScore, riskCategory |-> category,
     inconsistencies |-> inconsistencies]

\* assessRiskProfile with the category read before the age points are added
assessRiskProfileBeforeAge(clientProfile) ==
    LET riskScore == calculateRiskScore(clientProfile)
        category == determineRiskCategory(riskScore - AgePoints(clientProfile.age))
    IN  Assessment(riskScore, category,
                   checkForInconsistencies(clientProfile, category))

\* lines 13-33
assessRiskProfile(clientProfile) ==
    LET riskScore == calculateRiskScore(clientProfile)
    IN  Assessment(riskScore, determineRiskCategory(riskScore),
                   checkForInconsistencies(clientProfile,
                                           determineRiskCategory(riskScore)))

\* lines 345-358: the assetClassAllocation form
ScoreFromAssetClassAllocation(equity) ==
    IF equity >= 70 THEN Assessment(22, "Aggressive", <<>>)
    ELSE IF equity >= 50 THEN Assessment(18, "Moderate", <<>>)
    ELSE Assessment(12, "Conservative", <<>>)

\* lines 375-391: the legacy flat form
ScoreFromLegacyAllocation(equity) ==
    IF equity >= 80 THEN Assessment(24, "Ultra-Aggressive", <<>>)
    ELSE IF equity >= 65 THEN Assessment(20, "Aggressive", <<>>)
    ELSE IF equity >= 45 THEN Assessment(15, "Moderate", <<>>)
    ELSE Assessment(10, "Conservative", <<>>)

\* the identifiers assessRiskFromAllocation can read where it calls
\* generateRiskAssessmentDetailsFromAllocation (lines 361 and 394): its
\* parameter, its locals and the module's functions
InScope ==
    {"assetAllocation", "equity", "debt", "riskCategory", "riskScore", "console",
     "JSON", "generateRiskAssessmentDetailsFromAllocation"}

\* the arguments of the call at lines 361 and 394
DetailsArguments == <<"equity", "debt", "goldSilver", "riskCategory">>

\* reading an identifier that is not declared throws a ReferenceError, which
\* the catch of lines 403-406 throws on as an Error
DetailsCallThrows == \E i \in DOMAIN DetailsArguments : DetailsArguments[i] \notin InScope

Questionnaires ==
    [entry : {"questionnaire"},
     marketDropReaction : MarketDropReactions,
     maxAcceptableLoss : MaxAcceptableLosses,
     returnsVsStabilityPreference : ReturnsVsStabilityPreferences,
     preferredPortfolioStyle : PreferredPortfolioStyles,
     investmentHorizon : InvestmentHorizons,
     investmentKnowledge : InvestmentKnowledges,
     age : Ages]

ManualAllocations ==
    [entry : {"manual"}, form : {"assetClassAllocation", "legacy"},
     equity : 0..MaxPercent]

Scores == [entry : {"score"}, riskScore : (0 - MaxScore)..MaxScore]

NoAssessment == Assessment(0, "", <<>>)

RiskInit ==
    /\ kpc = "called"
    /\ riskInput \in Questionnaires \cup ManualAllocations \cup Scores
    /\ riskAssessment = NoAssessment

RiskIdle ==
    /\ kpc = "off"
    /\ riskInput = [entry |-> "none"]
    /\ riskAssessment = NoAssessment

\* assessRiskProfile(clientProfile), as POST /api/risk-assessment calls it
AssessRiskProfile ==
    /\ kpc = "called"
    /\ riskInput.entry = "questionnaire"
    /\ kpc' = "returned"
    /\ riskAssessment' = assessRiskProfile(riskInput)
    /\ UNCHANGED <<riskInput, allocVars, fetchVars, recVars, proposalVars, profileVars, pdfVars, sizedVars>>

\* assessRiskFromAllocation(assetAllocation), lines 335-407.  riskAssessment
\* holds the riskScore and riskCategory it has assigned when it returns or throws.
AssessRiskFromAllocation ==
    /\ kpc = "called"
    /\ riskInput.entry = "manual"
    /\ kpc' = IF DetailsCallThrows THEN "threw" ELSE "returned"
    /\ riskAssessment' =
          IF riskInput.form = "assetClassAllocation"
              THEN ScoreFromAssetClassAllocation(riskInput.equity)
              ELSE ScoreFromLegacyAllocation(riskInput.equity)
    /\ UNCHANGED <<riskInput, allocVars, fetchVars, recVars, proposalVars, profileVars, pdfVars, sizedVars>>

\* determineRiskCategory(riskScore) on its own
DetermineRiskCategory ==
    /\ kpc = "called"
    /\ riskInput.entry = "score"
    /\ kpc' = "returned"
    /\ riskAssessment' =
          Assessment(riskInput.riskScore, determineRiskCategory(riskInput.riskScore), <<>>)
    /\ UNCHANGED <<riskInput, allocVars, fetchVars, recVars, proposalVars, profileVars, pdfVars, sizedVars>>

\* the portfolio sizes of the workflow, in lakh: one of the small band and
\* one of the tables
WorkflowSizes == {LakhPerCrore \div 2, 10 * LakhPerCrore}

\* getPortfolioAllocation for each category the scorer returns and each size
\* of the workflow, tabulated
WorkflowAllocations ==
    [category \in ScorerCategories, size \in WorkflowSizes |->
        getPortfolioAllocation(category, size)] @@ <<>>

\* the sample workflow, steps 2 and 3: POST /api/asset-allocation with the
\* riskProfile that /api/risk-assessment returned (server.js 148-156), which
\* calls generateAssetAllocation({clientProfile, riskProfile})
AllocateForRiskProfile ==
    /\ kpc = "returned"
    /\ riskInput.entry = "questionnaire"
    /\ apc = "idle"
    /\ \E size \in WorkflowSizes :
          LET category == riskAssessment.riskCategory
          IN  /\ apc' = "done"
              /\ riskCategory' = category
              /\ portfolioSize' = size
              /\ detailedAllocation' = WorkflowAllocations[category, size]
              /\ assetClassAllocation' = generateAssetClassAllocation(category, size)
              /\ productTypeAllocation' =
                    generateProductTypeAllocation(
                        WorkflowAllocations[category, size],
                        generateAssetClassAllocation(category, size))
    /\ UNCHANGED <<riskVars, fetchVars, recVars, proposalVars, profileVars, pdfVars, sizedVars>>

RiskNext ==
    \/ AssessRiskProfile
    \/ AssessRiskFromAllocation
    \/ DetermineRiskCategory
    \/ AllocateForRiskProfile

----------------------------------------------------------------------------
(* src/modules/proposal.js: the asset-allocation section of the proposal *)

\* a number of rupees, or the NaN that arithmetic on undefined gives
Number(value) == [nan |-> FALSE, value |-> value]

NotANumber == [nan |-> TRUE, value |-> 0]

\* Math.round(value * 10000000) of an amount held in units
Rupees(units) == Round(units * 50, 3)

\* allocation[class] || 0
OrZero(allocation, class) ==
    IF class \in DOMAIN allocation THEN allocation[class] ELSE 0

\* detailedAllocation.Total as a condition: present and not zero
TotalTruthy(allocation) ==
    "Total" \in DOMAIN allocation /\ allocation["Total"] # 0

\* lines 261-268: the group a key of detailedAllocation is listed under
\* (key.includes('AIF') || key.includes('PMS') after the Equity and Debt tests)
GroupOf(key) ==
    IF IncludesEquity(key) THEN "Equity"
    ELSE IF IncludesDebt(key) THEN "Debt"
    ELSE IF key \in {"AIF", "PMS"} THEN "Alternative Investments"
    ELSE "Other"

VehicleRow(group, vehicle, amount) ==
    [group |-> group, vehicle |-> vehicle, amount |-> amount]

\* lines 367-373: the percentage table (allocation.equity || 0)
PercentageTable(allocation) ==
    [equity |-> OrZero(allocation, "equity"), debt |-> OrZero(allocation, "debt"),
     goldSilver |-> OrZero(allocation, "goldSilver")]

\* lines 241-307: the table written from detailedAllocation
DetailedTable(allocation, detailed) ==
    LET rows == {VehicleRow(GroupOf(key), key, Number(Rupees(detailed[key]))) :
                    key \in Vehicles(detailed)}
    IN  [table |-> "detailed",
         headers |-> {row.group : row \in rows},
         vehicles |-> rows,
         total |-> Rupees(detailed["Total"]),
         percentages |-> PercentageTable(allocation)]

\* Math.round((allocation[class] / 100) * initialInvestment * share), the
\* share in thousandths and the investment in lakh
LegacyAmount(allocation, class, initialInvestment, share) ==
    IF class \in DOMAIN allocation
        THEN Number(allocation[class] * initialInvestment * share)
        ELSE NotANumber

\* lines 308-360: the table computed from the percentages
LegacyTable(allocation, initialInvestment) ==
    LET row(class, group, vehicle, share) ==
            VehicleRow(group, vehicle,
                       LegacyAmount(allocation, class, initialInvestment, share))
    IN  [table |-> "legacy",
         headers |-> {"Equity", "Debt", "Gold/Silver"},
         vehicles |->
            {row("equity", "Equity", "Mutual Funds", 700),
             row("equity", "Equity", "- Large Cap Fund", 250),
             row("equity", "Equity", "- Global Fund", 150),
             row("equity", "Equity", "- Hybrid/Multi-Asset Fund", 150),
             row("equity", "Equity", "- Thematic Fund", 150),
             row("equity", "Equity", "ETFs", 300),
             row("debt", "Debt", "Mutual Funds", 500),
             row("debt", "Debt", "Bonds", 500),
             row("goldSilver", "Gold/Silver", "ETFs", 600),
             row("goldSilver", "Gold/Silver", "Physical", 400)},
         total |-> initialInvestment * (1000 * 100),
         percentages |-> PercentageTable(allocation)]

\* generateAssetAllocationContent, lines 219-383, for an assetAllocation that
\* is an object; assetAllocation?.x || {} reads an absent part as empty
generateAssetAllocationContent(assetAllocation, initialInvestment) ==
    IF DOMAIN assetAllocation.detailedAllocation # {}
           /\ TotalTruthy(assetAllocation.detailedAllocation)
        THEN DetailedTable(assetAllocation.assetClassAllocation,
                           assetAllocation.detailedAllocation)
        ELSE LegacyTable(assetAllocation.assetClassAllocation, initialInvestment)

\* line 365 reads assetAllocation.riskCategory without ?. : a TypeError when
\* assetAllocation is undefined
ContentThrows(assetAllocation) == ~assetAllocation.present

\* an assetAllocation object
AssetAllocation(present, hasDetailed, detailed, classes) ==
    [present |-> present, hasDetailed |-> hasDetailed,
     detailedAllocation |-> detailed, assetClassAllocation |-> classes]

\* allocation.generateAssetAllocation({clientProfile, riskProfile})
FreshAllocation(category, size) ==
    AssetAllocation(TRUE, TRUE, getPortfolioAllocation(category, size),
                    generateAssetClassAllocation(category, size))

\* the forms of clientData.assetAllocation: a result of the current
\* allocation engine, an older result with percentages only, an empty object,
\* and none
AllocationForms == {"generated", "legacy", "empty", "absent"}

AssetAllocationOf(form, category, size) ==
    CASE form = "generated" -> FreshAllocation(category, size)
      [] form = "legacy" ->
            AssetAllocation(TRUE, FALSE, <<>>, generateAssetClassAllocation(category, size))
      [] form = "empty" -> AssetAllocation(TRUE, FALSE, <<>>, <<>>)
      [] form = "absent" -> AssetAllocation(FALSE, FALSE, <<>>, <<>>)

\* lines 34-50: !assetAllocation?.detailedAllocation && clientProfile &&
\* riskProfile, for a request that carries both profiles
Regenerates(assetAllocation) == ~assetAllocation.hasDetailed

NoContent ==
    [table |-> "none", headers |-> {}, vehicles |-> {}, total |-> 0,
     percentages |-> [equity |-> 0, debt |-> 0, goldSilver |-> 0]]

ProposalRequest(call, category, size, assetAllocation) ==
    [call |-> call, riskCategory |-> category, initialInvestment |-> size,
     assetAllocation |-> assetAllocation]

ProposalInit ==
    /\ ppc = "called"
    /\ \E call \in {"content", "proposal"}, form \in AllocationForms,
          category \in Categories, size \in 0..MaxPortfolioLakh :
            proposalInput =
                ProposalRequest(call, category, size,
                                AssetAllocationOf(form, category, size))
    /\ content = NoContent

ProposalIdle ==
    /\ ppc = "off"
    /\ proposalInput = [call |-> "none"]
    /\ content = NoContent

\* generateAssetAllocationContent(assetAllocation, initialInvestment) called
\* on its own
GenerateAssetAllocationContent ==
    /\ ppc = "called"
    /\ proposalInput.call = "content"
    /\ IF ContentThrows(proposalInput.assetAllocation) THEN
          /\ ppc' = "threw"
          /\ content' = NoContent
       ELSE
          /\ ppc' = "returned"
          /\ content' = generateAssetAllocationContent(proposalInput.assetAllocation,
                                                       proposalInput.initialInvestment)
    /\ UNCHANGED <<proposalInput, allocVars, fetchVars, recVars, riskVars, profileVars, pdfVars, sizedVars>>

\* generateProposal, lines 19-89, as far as the asset-allocation section: the
\* allocation is generated afresh and stored in clientData when the request
\* has no detailedAllocation
GenerateProposal ==
    /\ ppc = "called"
    /\ proposalInput.call = "proposal"
    /\ LET assetAllocation ==
              IF Regenerates(proposalInput.assetAllocation)
                  THEN FreshAllocation(proposalInput.riskCategory,
                                       proposalInput.initialInvestment)
                  ELSE proposalInput.assetAllocation
       IN  /\ proposalInput' = [proposalInput EXCEPT !.assetAllocation = assetAllocation]
           /\ ppc' = "returned"
           /\ content' = generateAssetAllocationContent(assetAllocation,
                                                        proposalInput.initialInvestment)
    /\ UNCHANGED <<allocVars, fetchVars, recVars, riskVars, profileVars, pdfVars, sizedVars>>

ProposalNext == GenerateAssetAllocationContent \/ GenerateProposal

----------------------------------------------------------------------------
(* the client profiling module: processClientProfile and what it calls *)

\* validateClientData's requiredFields, in the order they are tested
requiredFields ==
    <<"personalInfo", "financialSituation", "investmentObjectives", "riskTolerance">>

OptionalSections ==
    {"liquidityNeeds", "taxConsiderations", "knowledgeAndExperience", "behavioralInsights"}

\* what a section of the questionnaire can be: not there, null, or an object
SectionStates == {"absent", "null", "object"}

\* !clientData[field]
Falsy(section) == section.is \in {"absent", "null"}

\* a section of the questionnaire: what it is, and which of its sample
\* contents it carries when it is an object
Section(is, sample) == [is |-> is, sample |-> sample]

\* the fields each extract function copies
Copied(name) ==
    CASE name = "personalInfo" ->
            {"name", "age", "maritalStatus", "dependents", "occupation",
             "annualIncome", "contactDetails"}
      [] name = "financialSituation" ->
            {"currentInvestments", "liabilities", "realEstateHoldings", "savings",
             "emergencyFundStatus", "monthlyExpenses", "existingInvestmentProducts"}
      [] name = "investmentObjectives" ->
            {"primaryGoals", "investmentHorizon", "preferredStyle",
             "initialInvestmentAmount", "regularContributionAmount"}
      [] name = "riskTolerance" ->
            {"marketDropReaction", "maxAcceptableLoss",
             "returnsVsStabilityPreference", "preferredPortfolioStyle"}
      [] name = "liquidityNeeds" ->
            {"shortTermLiquidity", "accessiblePortfolioPercentage"}
      [] name = "taxConsiderations" -> {"taxSavingInvestmentsRequired", "taxBracket"}
      [] name = "knowledgeAndExperience" ->
            {"investmentKnowledge", "decisionMakingApproach"}
      [] name = "behavioralInsights" -> {"emotionalReaction", "managementPreference"}

\* the sample contents of a section that is an object: "filled" answers every
\* field the module copies and one it does not, "partial" answers none (and,
\* for personalInfo, gives a dateOfBirth instead of an age)
Samples == {"filled", "partial"}

\* section[field] of a section that is an object: the answer is named after
\* its field, and a field that was not answered reads as undefined
Answer(name, sample, field) ==
    IF sample = "filled" THEN <<"answer", name, field>>
    ELSE IF name = "personalInfo" /\ field = "dateOfBirth"
        THEN <<"answer", name, field>>
    ELSE <<"undefined">>

\* personalInfo.age || personalInfo.dateOfBirth
AgeOrDateOfBirth(sample) ==
    IF Answer("personalInfo", sample, "age") # <<"undefined">>
        THEN Answer("personalInfo", sample, "age")
        ELSE Answer("personalInfo", sample, "dateOfBirth")

\* extractPersonalInfo ... extractRiskTolerance: the listed fields, copied
Extract(name, section) ==
    [field \in Copied(name) |->
        IF name = "personalInfo" /\ field = "age"
            THEN AgeOrDateOfBirth(section.sample)
            ELSE Answer(name, section.sample, field)]

\* the defaults of the optional sections
Defaults(name) ==
    CASE name = "liquidityNeeds" ->
            [shortTermLiquidity |-> <<"false">>, accessiblePortfolioPercentage |-> <<"0">>]
      [] name = "taxConsiderations" ->
            [taxSavingInvestmentsRequired |-> <<"false">>, taxBracket |-> <<"null">>]
      [] name = "knowledgeAndExperience" ->
            [investmentKnowledge |-> <<"beginner">>, decisionMakingApproach |-> <<"null">>]
      [] name = "behavioralInsights" ->
            [emotionalReaction |-> <<"null">>, managementPreference |-> <<"null">>]

\* extractLiquidityNeeds ... extractBehavioralInsights
ExtractOrDefault(name, section) ==
    IF Falsy(section) THEN Defaults(name) ELSE Extract(name, section)

\* validateClientData with the fields tested from the last to the first
validateClientDataLastFirst(data) ==
    LET missing == {i \in DOMAIN requiredFields : Falsy(data[requiredFields[i]])}
    IN  IF missing = {} THEN "none"
        ELSE requiredFields[CHOOSE i \in missing : \A j \in missing : j <= i]

\* validateClientData: the field its loop throws on, or "none"
validateClientData(data) ==
    LET missing == {i \in DOMAIN requiredFields : Falsy(data[requiredFields[i]])}
    IN  IF missing = {} THEN "none"
        ELSE requiredFields[CHOOSE i \in missing : \A j \in missing : i <= j]

\* the Error the catch of processClientProfile throws: its message is the
\* prefix followed by the message of the error caught
ProfileError(text, field) ==
    [prefix |-> "Error processing client profile: ", text |-> text, field |-> field]

NoProfileError == ProfileError("", "")

NoProfile == [built |-> FALSE, sections |-> <<>>]

\* the object processClientProfile returns
processedProfileOf(data) ==
    [built |-> TRUE,
     sections |->
        [name \in {requiredFields[i] : i \in DOMAIN requiredFields} \cup OptionalSections |->
            IF name \in OptionalSections
                THEN ExtractOrDefault(name, data[name])
                ELSE Extract(name, data[name])]]

\* the questionnaires: an object with each section in each state, or nothing
\* at all (req.body undefined)
ProfileInit ==
    /\ cpc = "called"
    /\ \/ rawClientData = [is |-> "undefined", sections |-> <<>>]
       \/ \E states \in [{requiredFields[i] : i \in DOMAIN requiredFields}
                            \cup OptionalSections -> SectionStates],
             sample \in Samples :
            rawClientData =
                [is |-> "object",
                 sections |-> [name \in DOMAIN states |-> Section(states[name], sample)]]
    /\ processedProfile = NoProfile
    /\ profileError = NoProfileError

ProfileIdle ==
    /\ cpc = "off"
    /\ rawClientData = [is |-> "none", sections |-> <<>>]
    /\ processedProfile = NoProfile
    /\ profileError = NoProfileError

\* processClientProfile(clientData): validateClientData throws before any
\* section is extracted, and reading a field of undefined is a TypeError;
\* either is caught and thrown on
ProcessClientProfile ==
    /\ cpc = "called"
    /\ IF rawClientData.is = "undefined" THEN
          /\ cpc' = "threw"
          /\ processedProfile' = NoProfile
          /\ profileError' = ProfileError("Cannot read properties of undefined", "")
       ELSE IF validateClientData(rawClientData.sections) # "none" THEN
          /\ cpc' = "threw"
          /\ processedProfile' = NoProfile
          /\ profileError' = ProfileError("Missing required field: ",
                                          validateClientData(rawClientData.sections))
       ELSE
          /\ cpc' = "returned"
          /\ processedProfile' = processedProfileOf(rawClientData.sections)
          /\ profileError' = NoProfileError
    /\ UNCHANGED <<rawClientData, allocVars, fetchVars, recVars, riskVars, proposalVars, pdfVars, sizedVars>>

ProfileNext == ProcessClientProfile

----------------------------------------------------------------------------
(* src/modules/proposal.js generateProposalPDF and the handler of          *)
(* POST /api/generate-proposal-pdf: requests in flight in one process       *)

\* the requests that can be in flight together; request c renders proposal c
MaxCalls == 2

\* the largest value of the millisecond clock
MaxClock == 2

Calls == 1..MaxCalls

\* a temporary file: path.join(tempDir, `proposal_${Date.now()}.md`) or .pdf
TempFile(extension, stamp) == <<extension, stamp>>

NoTempFiles == [md |-> TempFile("none", 0), pdf |-> TempFile("none", 0)]

\* the responses of the handler: res.send(pdfBuffer), with the proposal the
\* buffer was rendered from, and res.status(400).json(...)
PdfResponse(proposal) == [status |-> 200, rendered |-> proposal]

ErrorResponse == [status |-> 400, rendered |-> 0]

\* fs.unlinkSync(tempMdFile); fs.unlinkSync(tempPdfFile) inside one try:
\* when the first throws (the file is gone) the second is not reached
CleanUp(fileSystem, temp) ==
    IF temp.md \in DOMAIN fileSystem
        THEN [f \in DOMAIN fileSystem \ {temp.md, temp.pdf} |-> fileSystem[f]]
        ELSE fileSystem

\* fs.readFileSync(tempPdfFile) throws when the file is not there
ReadThrows(fileSystem, temp) == temp.pdf \notin DOMAIN fileSystem

\* fs.writeFileSync(file, data)
WriteFile(fileSystem, file, data) ==
    [f \in DOMAIN fileSystem \cup {file} |-> IF f = file THEN data ELSE fileSystem[f]]

PdfInit ==
    /\ process = "running"
    /\ now = 0
    /\ pdfpc = [c \in Calls |-> "idle"]
    /\ tempFiles = [c \in Calls |-> NoTempFiles]
    /\ files = <<>>
    /\ answers = [c \in Calls |-> <<>>]

PdfIdle ==
    /\ process = "off"
    /\ now = 0
    /\ pdfpc = <<>>
    /\ tempFiles = <<>>
    /\ files = <<>>
    /\ answers = <<>>

\* the millisecond clock advances
Tick ==
    /\ process = "running"
    /\ now < MaxClock
    /\ now' = now + 1
    /\ UNCHANGED <<process, pdfpc, tempFiles, files, answers>>
    /\ UNCHANGED <<allocVars, fetchVars, recVars, riskVars, proposalVars, profileVars, sizedVars>>

\* the handler up to its await: generateProposal, then the executor of
\* generateProposalPDF as far as markdownpdf(...).from(...).to(...).  An error
\* thrown by generateProposal goes to the handler's catch; one thrown in the
\* executor (writeFileSync) goes to its catch, which rejects, and the
\* rejection reaches the handler's catch before any other callback runs.
\* Date.now() is read twice, and the clock may advance in between.
HandleRequest(c) ==
    /\ process = "running"
    /\ pdfpc[c] = "idle"
    /\ \E outcome \in {"proposalThrows", "writeThrows", "written"},
          second \in {now, now + 1} :
          LET temp == [md |-> TempFile("md", now), pdf |-> TempFile("pdf", second)]
          IN  /\ second <= MaxClock
              /\ now' = second
              /\ IF outcome = "written" THEN
                    /\ pdfpc' = [pdfpc EXCEPT ![c] = "converting"]
                    /\ tempFiles' = [tempFiles EXCEPT ![c] = temp]
                    /\ files' = WriteFile(files, temp.md, c)
                    /\ UNCHANGED answers
                 ELSE
                    /\ pdfpc' = [pdfpc EXCEPT ![c] = "done"]
                    /\ tempFiles' =
                          [tempFiles EXCEPT ![c] =
                              IF outcome = "writeThrows" THEN temp ELSE NoTempFiles]
                    /\ answers' = [answers EXCEPT ![c] = Append(@, ErrorResponse)]
                    /\ UNCHANGED files
    /\ UNCHANGED process
    /\ UNCHANGED <<allocVars, fetchVars, recVars, riskVars, proposalVars, profileVars, sizedVars>>

\* markdown-pdf converts tempMdFile into tempPdfFile and then calls the
\* callback given to .to(); when the conversion fails (or the markdown file is
\* gone) no PDF is written and the callback is called with the error
Convert(c) ==
    /\ process = "running"
    /\ pdfpc[c] = "converting"
    /\ pdfpc' = [pdfpc EXCEPT ![c] = "callback"]
    /\ \E converted \in BOOLEAN :
          IF converted /\ tempFiles[c].md \in DOMAIN files
              THEN files' = WriteFile(files, tempFiles[c].pdf, files[tempFiles[c].md])
              ELSE UNCHANGED files
    /\ UNCHANGED <<process, now, tempFiles, answers>>
    /\ UNCHANGED <<allocVars, fetchVars, recVars, riskVars, proposalVars, profileVars, sizedVars>>

\* the callback of lines 566-580, which takes no error argument: it reads
\* the PDF, cleans up and resolves, and the handler sends the buffer.  The
\* callback runs outside the try of the executor, so an error thrown by
\* readFileSync is an uncaught exception, which ends the process.
Callback(c) ==
    /\ process = "running"
    /\ pdfpc[c] = "callback"
    /\ IF ReadThrows(files, tempFiles[c]) THEN
          /\ process' = "crashed"
          /\ UNCHANGED <<pdfpc, files, answers>>
       ELSE
          /\ pdfpc' = [pdfpc EXCEPT ![c] = "done"]
          /\ answers' =
                [answers EXCEPT ![c] = Append(@, PdfResponse(files[tempFiles[c].pdf]))]
          /\ files' = CleanUp(files, tempFiles[c])
          /\ UNCHANGED process
    /\ UNCHANGED <<now, tempFiles>>
    /\ UNCHANGED <<allocVars, fetchVars, recVars, riskVars, proposalVars, profileVars, sizedVars>>

PdfNext ==
    \/ Tick
    \/ \E c \in Calls : HandleRequest(c)
    \/ \E c \in Calls : Convert(c)
    \/ \E c \in Calls : Callback(c)

----------------------------------------------------------------------------
(* src/modules/allocation.js, lines 1-283: the allocation by portfolio size    *)
(* category                                                                     *)

\* determinePortfolioSizeCategory, lines 58-77, for a size in lakh
determinePortfolioSizeCategory(sizeInLakhs) ==
    IF sizeInLakhs < 50 THEN "Below 50L"
    ELSE IF sizeInLakhs < LakhPerCrore THEN "50L-1Cr"
    ELSE IF sizeInLakhs < 2 * LakhPerCrore THEN "1Cr-2Cr"
    ELSE IF sizeInLakhs < 5 * LakhPerCrore THEN "2Cr-5Cr"
    ELSE IF sizeInLakhs < 10 * LakhPerCrore THEN "5Cr-10Cr"
    ELSE IF sizeInLakhs < 25 * LakhPerCrore THEN "10Cr-25Cr"
    ELSE "Above 25Cr"

\* generateAssetClassAllocation(riskCategory), lines 84-118
generateAssetClassAllocationByCategory(category) ==
    CASE category = "Ultra Aggressive" -> [equity |-> 95, debt |-> 5, goldSilver |-> 0]
      [] category = "Aggressive" -> [equity |-> 80, debt |-> 15, goldSilver |-> 5]
      [] category = "Moderate" -> [equity |-> 55, debt |-> 30, goldSilver |-> 15]
      [] category = "Conservative" -> [equity |-> 25, debt |-> 60, goldSilver |-> 15]
      [] OTHER -> [equity |-> 55, debt |-> 30, goldSilver |-> 15]

\* the base allocation structure, lines 128-146
ProductTypes(eMf, ePms, eAif, dMf, dDirect, dAif, etf, physical) ==
    [equity |-> [mutualFunds |-> eMf, pms |-> ePms, aif |-> eAif, direct |-> 0],
     debt |-> [mutualFunds |-> dMf, direct |-> dDirect, pms |-> 0, aif |-> dAif],
     goldSilver |-> [etf |-> etf, physical |-> physical]]

\* the switch on portfolioSizeCategory, lines 149-212
SizeCategoryTypes(portfolioSizeCategory) ==
    CASE portfolioSizeCategory = "Below 50L" -> ProductTypes(100, 0, 0, 100, 0, 0, 100, 0)
      [] portfolioSizeCategory = "50L-1Cr" -> ProductTypes(70, 30, 0, 100, 0, 0, 100, 0)
      [] portfolioSizeCategory = "1Cr-2Cr" -> ProductTypes(60, 30, 10, 100, 0, 0, 100, 0)
      [] portfolioSizeCategory = "2Cr-5Cr" -> ProductTypes(50, 30, 20, 70, 30, 0, 100, 0)
      [] portfolioSizeCategory = "5Cr-10Cr" -> ProductTypes(40, 30, 30, 60, 30, 10, 100, 0)
      [] portfolioSizeCategory \in {"10Cr-25Cr", "Above 25Cr"} ->
            ProductTypes(30, 35, 35, 40, 40, 20, 80, 20)
      [] OTHER -> ProductTypes(100, 0, 0, 100, 0, 0, 100, 0)

\* Math.max(0, x)
Max0(x) == IF x < 0 THEN 0 ELSE x

\* lines 216-226: the adjustment for Conservative
ConservativeAdjusted(allocation) ==
    LET equity == [allocation.equity EXCEPT !.mutualFunds = @ + 20,
                                            !.aif = Max0(@ - 20)]
        debt == IF allocation.debt.direct > 0
                    THEN [allocation.debt EXCEPT !.direct = @ + 10,
                                                 !.aif = Max0(@ - 10)]
                    ELSE allocation.debt
    IN  [allocation EXCEPT !.equity = equity, !.debt = debt]

\* lines 227-237: the adjustment for Aggressive and Ultra Aggressive
AggressiveAdjusted(allocation) ==
    LET equity == [allocation.equity EXCEPT !.mutualFunds = Max0(@ - 20),
                                            !.aif = @ + 20]
        debt == IF allocation.debt.aif > 0
                    THEN [allocation.debt EXCEPT !.aif = @ + 10,
                                                 !.direct = Max0(@ - 10)]
                    ELSE allocation.debt
    IN  [allocation EXCEPT !.equity = equity, !.debt = debt]

\* generateProductTypeAllocation(riskCategory, portfolioSizeCategory), lines 126-240
generateProductTypeAllocationBySizeCategory(category, portfolioSizeCategory) ==
    LET allocation == SizeCategoryTypes(portfolioSizeCategory)
    IN  IF portfolioSizeCategory = "Below 50L" THEN allocation
        ELSE IF category = "Conservative" THEN ConservativeAdjusted(allocation)
        ELSE IF category \in {"Aggressive", "Ultra Aggressive"}
            THEN AggressiveAdjusted(allocation)
        ELSE allocation

\* no allocation returned yet
NoSizedAllocation ==
    [portfolioSizeCategory |-> "",
     assetClassAllocation |-> [equity |-> 0, debt |-> 0, goldSilver |-> 0],
     productTypeAllocation |-> ProductTypes(0, 0, 0, 0, 0, 0, 0, 0)]

SizedInit ==
    /\ zpc = "request"
    /\ sizedRequest \in [riskCategory : Categories, portfolioSize : 0..MaxPortfolioLakh]
    /\ sizedAllocation = NoSizedAllocation

SizedIdle ==
    /\ zpc = "idle"
    /\ sizedRequest = [riskCategory |-> "Moderate", portfolioSize |-> 0]
    /\ sizedAllocation = NoSizedAllocation

\* generateAssetAllocation(clientData), lines 13-40
GenerateAssetAllocationBySizeCategory ==
    /\ zpc = "request"
    /\ zpc' = "done"
    /\ LET portfolioSizeCategory == determinePortfolioSizeCategory(sizedRequest.portfolioSize)
       IN  sizedAllocation' =
              [portfolioSizeCategory |-> portfolioSizeCategory,
               assetClassAllocation |->
                   generateAssetClassAllocationByCategory(sizedRequest.riskCategory),
               productTypeAllocation |->
                   generateProductTypeAllocationBySizeCategory(sizedRequest.riskCategory,
                                                               portfolioSizeCategory)]
    /\ UNCHANGED <<sizedRequest, allocVars, fetchVars, recVars, riskVars, proposalVars, profileVars, pdfVars>>

SizedNext == GenerateAssetAllocationBySizeCategory

----------------------------------------------------------------------------
(* Specifications *)

AllocStart == AllocInit /\ FetchIdle /\ RecIdle /\ RiskIdle /\ ProposalIdle /\ ProfileIdle /\ PdfIdle /\ SizedIdle

AllocSpec == AllocStart /\ [][AllocNext]_vars

FetchStart == FetchInit /\ AllocIdle /\ RecIdle /\ RiskIdle /\ ProposalIdle /\ ProfileIdle /\ PdfIdle /\ SizedIdle

\* Every request has a timeout (API_CONFIG.timeout, MF_API_CONFIG.timeout), so
\* it resolves or rejects; the retry delay is a timer, so it fires.
FetchSpec ==
    /\ FetchStart
    /\ [][FetchNext]_vars
    /\ WF_vars(CallFetch) /\ WF_vars(Respond) /\ WF_vars(TimerFires)

RecStart == RecInit /\ AllocIdle /\ FetchIdle /\ RiskIdle /\ ProposalIdle /\ ProfileIdle /\ PdfIdle /\ SizedIdle

RecSpec == RecStart /\ [][RecNext]_vars

RiskStart == RiskInit /\ AllocIdle /\ FetchIdle /\ RecIdle /\ ProposalIdle /\ ProfileIdle /\ PdfIdle /\ SizedIdle

RiskSpec == RiskStart /\ [][RiskNext]_vars

ProposalStart == ProposalInit /\ AllocIdle /\ FetchIdle /\ RecIdle /\ RiskIdle /\ ProfileIdle /\ PdfIdle /\ SizedIdle

ProposalSpec == ProposalStart /\ [][ProposalNext]_vars

ProfileStart == ProfileInit /\ AllocIdle /\ FetchIdle /\ RecIdle /\ RiskIdle /\ ProposalIdle /\ PdfIdle /\ SizedIdle

ProfileSpec == ProfileStart /\ [][ProfileNext]_vars

PdfStart == PdfInit /\ AllocIdle /\ FetchIdle /\ RecIdle /\ RiskIdle /\ ProposalIdle /\ ProfileIdle /\ SizedIdle

\* markdown-pdf ends every conversion by calling back, and the event loop
\* runs every callback that is due
PdfSpec ==
    /\ PdfStart
    /\ [][PdfNext]_vars
    /\ \A c \in Calls : WF_vars(Convert(c)) /\ WF_vars(Callback(c))

SizedStart == SizedInit /\ AllocIdle /\ FetchIdle /\ RecIdle /\ RiskIdle /\ ProposalIdle /\ ProfileIdle /\ PdfIdle

SizedSpec == SizedStart /\ [][SizedNext]_vars

Init == AllocStart \/ FetchStart \/ RecStart \/ RiskStart \/ ProposalStart \/ ProfileStart \/ PdfStart \/ SizedStart

Next == AllocNext \/ FetchNext \/ RecNext \/ RiskNext \/ ProposalNext \/ ProfileNext \/ PdfNext \/ SizedNext

Spec == Init /\ [][Next]_vars

----------------------------------------------------------------------------
(* Properties of the allocation engine *)

\* the sum of the entries of detailedAllocation other than Total and error
VehicleSum == SumOver(detailedAllocation, Vehicles(detailedAllocation))

\* the smallest checkpoint >= the size, and the largest one past 25 crore
IsCheckpointOf(c, size) ==
    /\ c \in Checkpoints
    /\ \/ /\ size <= c * LakhPerCrore
          /\ \A d \in Checkpoints : size <= d * LakhPerCrore => c <= d
       \/ /\ size > 25 * LakhPerCrore
          /\ c = 25

\* detailedAllocation holds, for every vehicle of the row, amount * size / c,
\* and Total = size
IsRowScaled(row, c, size) ==
    /\ DOMAIN detailedAllocation = DOMAIN row \cup {"Total"}
    /\ detailedAllocation["Total"] = Lakh(size)
    /\ \A k \in DOMAIN row :
          detailedAllocation[k] * c = row[k] * size * (UnitsPerLakh \div 100)

\* detailedAllocation is the split e/d/dd percent of the size over exactly
\* Equity Mutual Funds, Debt Mutual Funds and Direct Debt, with Total = size
IsSplit(size, e, d, dd) ==
    /\ DOMAIN detailedAllocation =
          {"Equity Mutual Funds", "Debt Mutual Funds", "Direct Debt", "Total"}
    /\ detailedAllocation["Total"] = Lakh(size)
    /\ detailedAllocation["Equity Mutual Funds"] * 100 = Lakh(size) * e
    /\ detailedAllocation["Debt Mutual Funds"] * 100 = Lakh(size) * d
    /\ detailedAllocation["Direct Debt"] * 100 = Lakh(size) * dd

\* C1: whenever getPortfolioAllocation returns no error sentinel, the entries
\* other than Total and error sum to the portfolio size, within 0.01% of it.
C1_SumEqualsSize ==
    (apc = "done" /\ "error" \notin DOMAIN detailedAllocation)
        => Abs(VehicleSum - Lakh(portfolioSize)) <= Lakh(portfolioSize) \div 10000

\* C2: Aggressive with 2 < size <= 5 crore returns the fixed amounts Equity AIF 2,
\* Equity PMS 1, Equity Mutual Funds 0.75, Debt Mutual Funds 0.5, Direct Debt
\* 0.75 crore whatever the size, and Total = size.
C2_AggressiveFixedBand ==
    (/\ apc = "done"
     /\ riskCategory = "Aggressive"
     /\ portfolioSize > 2 * LakhPerCrore
     /\ portfolioSize <= 5 * LakhPerCrore)
        => detailedAllocation =
              ("Equity AIF" :> 2 * UnitsPerCrore) @@
              ("Equity PMS" :> UnitsPerCrore) @@
              ("Equity Mutual Funds" :> 75 * UnitsPerLakh) @@
              ("Debt Mutual Funds" :> 50 * UnitsPerLakh) @@
              ("Direct Debt" :> 75 * UnitsPerLakh) @@
              ("Total" :> portfolioSize * UnitsPerLakh)

\* a 3-crore Aggressive request answered with the 2-crore Equity AIF amount
C2_Witness ==
    /\ apc = "done"
    /\ riskCategory = "Aggressive"
    /\ portfolioSize = 3 * LakhPerCrore
    /\ "Equity AIF" \in DOMAIN detailedAllocation
    /\ detailedAllocation["Equity AIF"] = 2 * UnitsPerCrore
    /\ detailedAllocation["Total"] = 3 * UnitsPerCrore

\* C3: Conservative up to and including 2 crore is the 40/30/30 split with no
\* other vehicle; above 2 crore it is the checkpoint row scaled by size / c, which
\* up to 5 crore is the size-5 row with a non-zero Equity PMS amount.
C3_ConservativeBoundary ==
    (apc = "done" /\ riskCategory = "Conservative")
        => /\ portfolioSize <= 2 * LakhPerCrore => IsSplit(portfolioSize, 40, 30, 30)
           /\ portfolioSize > 2 * LakhPerCrore =>
                 \E c \in Checkpoints :
                    /\ IsCheckpointOf(c, portfolioSize)
                    /\ IsRowScaled(conservativeLookup[c], c, portfolioSize)
           /\ (portfolioSize > 2 * LakhPerCrore /\ portfolioSize <= 5 * LakhPerCrore) =>
                 /\ IsRowScaled(conservativeLookup[5], 5, portfolioSize)
                 /\ detailedAllocation["Equity PMS"] > 0

\* Conservative at 2.01 crore: the size-5 row scaled, Equity PMS 0.5 * 2.01 / 5
C3_Witness ==
    /\ apc = "done"
    /\ riskCategory = "Conservative"
    /\ portfolioSize = 2 * LakhPerCrore + 1
    /\ "Equity PMS" \in DOMAIN detailedAllocation
    /\ detailedAllocation["Equity PMS"] * 5 = 50 * portfolioSize * (UnitsPerLakh \div 100)

\* the sizes C4 is about: above the small-portfolio threshold and outside the
\* Aggressive (2,5] band
InTableBand(category, size) ==
    /\ category \in Recognized
    /\ size > LakhPerCrore
    /\ category = "Conservative" => size > 2 * LakhPerCrore
    /\ category = "Aggressive" =>
          ~(size > 2 * LakhPerCrore /\ size <= 5 * LakhPerCrore)

\* C4: in the table band the result is the row of the smallest checkpoint
\* c >= size (25 past 25 crore), every amount multiplied by size / c; at a
\* checkpoint the row comes back unscaled (Moderate at 10 crore is the size-10 row).
C4_CheckpointScaling ==
    (apc = "done" /\ InTableBand(riskCategory, portfolioSize))
        => /\ \E c \in Checkpoints :
                 /\ IsCheckpointOf(c, portfolioSize)
                 /\ IsRowScaled(LookupTable(riskCategory)[c], c, portfolioSize)
           /\ \A c \in Checkpoints :
                 portfolioSize = c * LakhPerCrore =>
                    \A k \in DOMAIN LookupTable(riskCategory)[c] :
                       detailedAllocation[k] = LookupTable(riskCategory)[c][k] * UnitsPerLakh
           /\ (riskCategory = "Moderate" /\ portfolioSize = 10 * LakhPerCrore) =>
                 detailedAllocation =
                    ("Equity AIF" :> 0) @@ ("Equity PMS" :> 250 * UnitsPerLakh) @@
                    ("Equity Mutual Funds" :> 350 * UnitsPerLakh) @@ ("Debt AIF" :> 0) @@
                    ("Debt Mutual Funds" :> 2 * UnitsPerCrore) @@
                    ("Direct Debt" :> 2 * UnitsPerCrore) @@ ("Total" :> 10 * UnitsPerCrore)

\* Moderate at 12 crore: the size-15 row scaled by 12 / 15
C4_Witness ==
    /\ apc = "done"
    /\ riskCategory = "Moderate"
    /\ portfolioSize = 12 * LakhPerCrore
    /\ "Equity PMS" \in DOMAIN detailedAllocation
    /\ detailedAllocation["Equity PMS"] = 3 * UnitsPerCrore
    /\ detailedAllocation["Equity Mutual Funds"] = 420 * UnitsPerLakh

\* C5: up to 1 crore the result holds only Equity Mutual Funds, Debt Mutual Funds
\* and Direct Debt plus Total = size, split 75/15/10 (Aggressive), 60/20/20
\* (Moderate), 40/30/30 (Conservative); Ultra Aggressive is exactly
\* {Equity Mutual Funds: size, Total: size}.
C5_SmallPortfolio ==
    (apc = "done" /\ riskCategory \in Recognized /\ portfolioSize <= LakhPerCrore)
        => /\ riskCategory = "Aggressive" => IsSplit(portfolioSize, 75, 15, 10)
           /\ riskCategory = "Moderate" => IsSplit(portfolioSize, 60, 20, 20)
           /\ riskCategory = "Conservative" => IsSplit(portfolioSize, 40, 30, 30)
           /\ riskCategory = "Ultra Aggressive" =>
                 detailedAllocation =
                    ("Equity Mutual Funds" :> portfolioSize * UnitsPerLakh) @@
                    ("Total" :> portfolioSize * UnitsPerLakh)

\* Ultra Aggressive at 0.5 crore: {Equity Mutual Funds: 0.5, Total: 0.5}
C5_Witness ==
    /\ apc = "done"
    /\ riskCategory = "Ultra Aggressive"
    /\ portfolioSize = 50
    /\ detailedAllocation =
          ("Equity Mutual Funds" :> 50 * UnitsPerLakh) @@ ("Total" :> 50 * UnitsPerLakh)

\* C10: for a recognized category and a size > 0 the equity product-type
\* percentages sum to assetClassAllocation.equity and the debt ones to
\* assetClassAllocation.debt.
C10_ProductTypesSumToAssetClass ==
    (apc = "done" /\ riskCategory \in Recognized /\ portfolioSize > 0)
        => /\ SumOver(productTypeAllocation.equity, DOMAIN productTypeAllocation.equity)
                 = assetClassAllocation.equity
           /\ SumOver(productTypeAllocation.debt, DOMAIN productTypeAllocation.debt)
                 = assetClassAllocation.debt

\* C11: for every risk category, recognized or not, and every portfolio size,
\* the percentages of assetClassAllocation sum to 100.
C11_AssetClassesSumTo100 ==
    apc = "done" =>
        SumOver(assetClassAllocation, DOMAIN assetClassAllocation) = 100

\* the split of a small Aggressive portfolio has been computed
C11_Witness ==
    /\ apc = "done"
    /\ riskCategory = "Aggressive"
    /\ portfolioSize = LakhPerCrore
    /\ assetClassAllocation = [equity |-> 75, debt |-> 25]

\* C12: for an unrecognized risk category and every portfolio size, those of
\* at most 1 crore included, getPortfolioAllocation returns the sentinel
\* {error: "Invalid strategy"} without a Total, and generateAssetAllocation
\* completes with the Moderate default split beside it.
C12_InvalidStrategySentinel ==
    (apc = "done" /\ riskCategory \notin Recognized) =>
        /\ detailedAllocation = ("error" :> "Invalid strategy")
        /\ "Total" \notin DOMAIN detailedAllocation
        /\ assetClassAllocation.equity = 60
        /\ assetClassAllocation.debt = 40
        /\ SumOver(assetClassAllocation, DOMAIN assetClassAllocation) = 100
        /\ productTypeAllocation = [equity |-> <<>>, debt |-> <<>>]

\* an unrecognized category with a portfolio under 1 crore has been answered
C12_Witness ==
    /\ apc = "done"
    /\ riskCategory \notin Recognized
    /\ portfolioSize > 0
    /\ portfolioSize < LakhPerCrore
    /\ "error" \in DOMAIN detailedAllocation

----------------------------------------------------------------------------
(* Properties of the outbound product-listing calls *)

\* a product fetch issues at most the initial request plus Retries retries
ProductFetchRequestsBounded ==
    fkind \in ProductCodes => requests <= Retries + 1

\* once a request has returned without throwing, no further request is issued
NoRequestAfterSuccess ==
    [][response.outcome = "ok" => requests' = requests]_vars

\* a product fetch that was called returns
ProductFetchReturns == (fpc = "pending") ~> (fpc = "done")

\* what a product fetch returns has positive length, and is the mock data
\* when the last attempt threw or the source's data had no positive length
ProductFetchLengthPositive ==
    (fkind \in ProductCodes /\ fpc = "done") =>
        /\ fresult.len > 0
        /\ fresult.source \in {"api", "mock"}
        /\ (response.outcome = "throw" => fresult.source = "mock")
        /\ (response.outcome = "ok" /\ ~LengthPositive(ReturnedData(fkind, response))
              => fresult.source = "mock")

\* C6: every product fetch (fetchPMS, fetchAlternativeFunds,
\* fetchUnlistedStocks) issues at most 3 requests and what it returns to its
\* caller is a non-empty list of candidates, from the source or the mock data,
\* whatever the external source does.  (That no request follows a success and
\* that the call returns are NoRequestAfterSuccess and ProductFetchReturns.)
C6_ProductFetchReturnsList ==
    fkind \in ProductCodes =>
        /\ requests <= Retries + 1
        /\ fpc = "done" =>
              /\ fresult.source \in {"api", "mock"}
              /\ fresult.type = "array"
              /\ fresult.len > 0

\* C7: every outbound call to a product-listing source, the mutual-fund calls
\* included, has made Retries retries after failed attempts when it falls back
\* to static data: a call that ends on a failed attempt has issued
\* Retries + 1 requests.
C7_EveryListingCallRetried ==
    (fpc = "done" /\ response.outcome = "throw") => requests = Retries + 1

----------------------------------------------------------------------------
(* Properties of recommendProducts *)

\* the call has got past its input checks, or is to make them and will
Building == rpc \in {"called", "debt", "gold", "resolved"} /\ ~Throws(clientData)

\* C8: a gated vehicle is recommended only when the portfolio meets its minimum
\* ticket (equity PMS 50 lakh, equity AIF 1 crore, debt AIF 5 crore); below the
\* gate it is absent whatever its product-type percentage, and nothing is
\* fetched for it.
C8_MinimumTicketGates ==
    /\ (rpc # "off" /\ Throws(clientData)) =>
          /\ fetched = {}
          /\ DOMAIN recommendations.equity \cap {"pms", "aif"} = {}
          /\ "aif" \notin DOMAIN recommendations.debt
    /\ Building =>
          LET size == PortfolioSizeOf(clientData)
          IN  /\ size < 50 =>
                    /\ "pms" \notin DOMAIN recommendations.equity
                    /\ <<"equity", "PMS">> \notin fetched
              /\ size < LakhPerCrore =>
                    /\ "aif" \notin DOMAIN recommendations.equity
                    /\ <<"equity", "ALTERNATIVE_FUNDS">> \notin fetched
              /\ size < 5 * LakhPerCrore =>
                    /\ "aif" \notin DOMAIN recommendations.debt
                    /\ \A f \in fetched : f[1] = "debt" => f[2] \in MutualFundCalls

\* a request one lakh under the PMS gate that asks for PMS and both AIFs has
\* been answered without them
C8_Witness ==
    /\ rpc = "resolved"
    /\ ~Throws(clientData)
    /\ PortfolioSizeOf(clientData) = 49
    /\ clientData.equity.pms > 0
    /\ clientData.equity.aif > 0
    /\ clientData.debt.aif > 0
    /\ "pms" \notin DOMAIN recommendations.equity
    /\ "mutualFunds" \in DOMAIN recommendations.equity

\* the vehicles of a class other than the optional unlisted stocks
MainVehicles(class) == DOMAIN class \ {"unlistedStocks"}

\* C9: recommendProducts never rejects; when it resolves, equity and debt each
\* hold at least one vehicle, which is mutual funds at 100% when the class
\* produced no other vehicle and no mutual-fund percentage was asked for; and
\* building a later class leaves the classes built before it as they were.
C9_ResolvesWithEveryClass ==
    [][/\ rpc' # "rejected"
       /\ rpc' = "resolved" =>
             /\ MainVehicles(recommendations'.equity) # {}
             /\ MainVehicles(recommendations'.debt) # {}
             /\ \A class \in {recommendations'.equity, recommendations'.debt} :
                   MainVehicles(class) = {"mutualFunds"} =>
                       \/ class["mutualFunds"].allocation = 100
                       \/ /\ ~Throws(clientData)
                          /\ Branch(clientData) = "normal"
                          /\ class["mutualFunds"].allocation
                                \in {clientData.equity.mutualFunds,
                                     clientData.debt.mutualFunds} \ {0}
       /\ rpc = "debt" => recommendations'.equity = recommendations.equity
       /\ rpc = "gold" =>
             /\ recommendations'.equity = recommendations.equity
             /\ recommendations'.debt = recommendations.debt]_vars

\* a request whose equity and debt vehicles are all gated out or at zero has
\* resolved, every mutual-fund fetch having failed, with the 100% mutual-funds
\* default from the catalog in both classes
C9_Witness ==
    /\ rpc = "resolved"
    /\ ~Throws(clientData)
    /\ Branch(clientData) = "normal"
    /\ clientData.equity.mutualFunds = 0
    /\ clientData.equity.pms > 0
    /\ clientData.debt.mutualFunds = 0
    /\ clientData.debt.direct = 0
    /\ clientData.debt.aif > 0
    /\ <<"debt", "MF_RISK">> \in fetched
    /\ DOMAIN recommendations.equity = {"mutualFunds"}
    /\ recommendations.equity["mutualFunds"].allocation = 100
    /\ DOMAIN recommendations.debt = {"mutualFunds"}
    /\ recommendations.debt["mutualFunds"].allocation = 100
    /\ recommendations.debt["mutualFunds"].products.source = "catalog"

----------------------------------------------------------------------------
(* Properties of the risk scorer *)

\* the four categories in order of risk
CategoryRank(category) ==
    CASE category = "Conservative" -> 1
      [] category = "Moderate" -> 2
      [] category = "Aggressive" -> 3
      [] category = "Ultra-Aggressive" -> 4
      [] OTHER -> 0

\* the category the fixed thresholds assign to a score
ThresholdCategory(score) ==
    CASE score <= 12 -> "Conservative"
      [] score >= 13 /\ score <= 17 -> "Moderate"
      [] score >= 18 /\ score <= 22 -> "Aggressive"
      [] score >= 23 -> "Ultra-Aggressive"

Returned(entry) == kpc = "returned" /\ riskInput.entry = entry

\* C13: for every integer score s, determineRiskCategory(s) is the band of s
\* (s <= 12 Conservative, 13..17 Moderate, 18..22 Aggressive, s >= 23
\* Ultra-Aggressive), and no lower score gets a riskier category.
C13_CategoryBands ==
    Returned("score") =>
        /\ riskAssessment.riskCategory = ThresholdCategory(riskInput.riskScore)
        /\ \A t \in (0 - MaxScore)..MaxScore :
              t <= riskInput.riskScore =>
                  CategoryRank(determineRiskCategory(t))
                      <= CategoryRank(riskAssessment.riskCategory)

\* the score at the top of the lowest band has been categorized
C13_Witness ==
    /\ Returned("score")
    /\ riskInput.riskScore = 12
    /\ riskAssessment.riskCategory = "Conservative"

\* C14: for every questionnaire the risk score lies in [8, 28].
C14_ScoreInRange ==
    Returned("questionnaire") =>
        /\ riskAssessment.riskScore >= 8
        /\ riskAssessment.riskScore <= 28

\* the place of an answer among the options ordered by risk appetite, or the
\* default for an answer that is none of them
PlaceOr(options, answer, default) ==
    IF \E i \in DOMAIN options : options[i] = answer
        THEN CHOOSE i \in DOMAIN options : options[i] = answer
        ELSE default

\* the points of the max-acceptable-loss bands
BandOfLoss(loss) ==
    CASE loss <= 5 -> 1
      [] loss > 5 /\ loss <= 10 -> 2
      [] loss > 10 /\ loss <= 15 -> 3
      [] loss > 15 /\ loss <= 25 -> 4
      [] loss > 25 -> 5

\* the points of a numeric age
BandOfAge(years) ==
    CASE years >= 60 -> 1
      [] years >= 40 /\ years < 60 -> 2
      [] years < 40 -> 3

\* C15: the score is the sum of seven components: market-drop reaction 1..5
\* (otherwise 3), max acceptable loss by band, returns-vs-stability 1..5
\* (otherwise 3), portfolio style 1..5 (otherwise 3), horizon 1..3 (otherwise
\* 2), knowledge 1..3 (otherwise 1, also without the section), age by band;
\* each grows with the risk appetite the answer expresses.
C15_ScoreIsSumOfComponents ==
    (Returned("questionnaire") /\ riskInput.age.given = "number") =>
        riskAssessment.riskScore =
            PlaceOr(<<"sell_all", "sell_some", "do_nothing", "buy_some", "buy_more">>,
                    riskInput.marketDropReaction, 3)
            + BandOfLoss(riskInput.maxAcceptableLoss)
            + PlaceOr(<<"stability", "mostly_stability", "balanced", "mostly_returns",
                        "returns">>, riskInput.returnsVsStabilityPreference, 3)
            + PlaceOr(<<"conservative", "moderately_conservative", "balanced",
                        "moderately_aggressive", "aggressive">>,
                      riskInput.preferredPortfolioStyle, 3)
            + PlaceOr(<<"short_term", "medium_term", "long_term">>,
                      riskInput.investmentHorizon, 2)
            + PlaceOr(<<"beginner", "intermediate", "advanced">>,
                      riskInput.investmentKnowledge, 1)
            + BandOfAge(riskInput.age.years)

\* a questionnaire with an unknown reaction, no knowledge section, a loss at
\* the end of a band and an age of 60 has been scored: 3 + 1 + 5 + 4 + 3 + 1 + 1
C15_Witness ==
    /\ Returned("questionnaire")
    /\ riskInput.marketDropReaction = "other"
    /\ riskInput.maxAcceptableLoss = 5
    /\ riskInput.returnsVsStabilityPreference = "returns"
    /\ riskInput.preferredPortfolioStyle = "moderately_aggressive"
    /\ riskInput.investmentHorizon = "long_term"
    /\ riskInput.investmentKnowledge = "absent"
    /\ riskInput.age = Age("number", 60)
    /\ riskAssessment.riskScore = 18

\* the category the breakpoints of a manual allocation's form give its equity
BreakpointCategory(form, equity) ==
    IF form = "assetClassAllocation" THEN
        (IF equity >= 70 THEN "Aggressive"
         ELSE IF equity >= 50 THEN "Moderate" ELSE "Conservative")
    ELSE
        (IF equity >= 80 THEN "Ultra-Aggressive"
         ELSE IF equity >= 65 THEN "Aggressive"
         ELSE IF equity >= 45 THEN "Moderate" ELSE "Conservative")

\* C16: for every manual allocation with equity in 0..100,
\* assessRiskFromAllocation returns, without throwing, a risk profile whose
\* category is set by the equity percentage through the form's breakpoints.
C16_ManualAllocationReturns ==
    (riskInput.entry = "manual" /\ kpc # "called") =>
        /\ kpc = "returned"
        /\ riskAssessment.riskCategory
              = BreakpointCategory(riskInput.form, riskInput.equity)

\* C17: in every risk profile an entry point returns (the questionnaire and
\* both forms of manual allocation), riskCategory is the category the fixed
\* thresholds assign to the riskScore returned with it.  A call that throws
\* returns no profile.
C17_CategoryMatchesScore ==
    (kpc = "returned" /\ riskInput.entry \in {"questionnaire", "manual"}) =>
        riskAssessment.riskCategory = ThresholdCategory(riskAssessment.riskScore)

\* a questionnaire whose answers score 18, the first score of the Aggressive
\* band, has been returned as Aggressive
C17_Witness ==
    /\ Returned("questionnaire")
    /\ riskAssessment.riskScore = 18
    /\ riskAssessment.riskCategory = "Aggressive"
    /\ riskAssessment.riskScore = calculateRiskScore(riskInput)

\* the five conditions and the flag of each
Conditions(clientProfile, category) ==
    {<<category = "Aggressive"
          /\ clientProfile.preferredPortfolioStyle
                \in {"conservative", "moderately_conservative"},
       StyleFlagAggressive>>,
     <<category = "Conservative"
          /\ clientProfile.preferredPortfolioStyle
                \in {"aggressive", "moderately_aggressive"},
       StyleFlagConservative>>,
     <<category = "Aggressive" /\ clientProfile.investmentHorizon = "short_term",
       HorizonFlag>>,
     <<category = "Aggressive" /\ clientProfile.maxAcceptableLoss <= 10,
       LossFlagAggressive>>,
     <<category = "Conservative" /\ clientProfile.maxAcceptableLoss >= 20,
       LossFlagConservative>>}

\* C18: assessRiskProfile returns its score and category whatever
\* inconsistencies it finds, and the list it returns holds exactly one flag
\* for each of the five conditions that holds and none for one that does not.
C18_InconsistenciesFlagged ==
    (riskInput.entry = "questionnaire" /\ kpc # "called") =>
        LET list == riskAssessment.inconsistencies
            holding == {c \in Conditions(riskInput, riskAssessment.riskCategory) : c[1]}
        IN  /\ kpc = "returned"
            /\ riskAssessment.riskScore = calculateRiskScore(riskInput)
            /\ riskAssessment.riskCategory \in
                  {"Conservative", "Moderate", "Aggressive", "Ultra-Aggressive"}
            /\ {list[i] : i \in DOMAIN list} = {c[2] : c \in holding}
            /\ Len(list) = Cardinality(holding)

\* an Aggressive profile with a conservative style, a short horizon and a low
\* acceptable loss has been returned with its three flags
C18_Witness ==
    /\ Returned("questionnaire")
    /\ riskAssessment.riskCategory = "Aggressive"
    /\ riskInput.preferredPortfolioStyle = "conservative"
    /\ riskInput.investmentHorizon = "short_term"
    /\ riskInput.maxAcceptableLoss = 10
    /\ Len(riskAssessment.inconsistencies) = 3

\* the request of the integration script: every alternative vehicle asked
\* for, at a size of 1 crore or more
AlternativesAsked ==
    /\ Branch(clientData) = "normal"
    /\ PortfolioSizeOf(clientData) >= LakhPerCrore
    /\ clientData.equity.pms > 0
    /\ clientData.equity.aif > 0
    /\ clientData.equity.unlistedStocks > 0

\* C19: for a portfolio of 1 crore or more with non-zero pms, aif and
\* unlistedStocks percentages, recommendProducts returns equity.pms,
\* equity.aif and equity.unlistedStocks, each with a non-empty product list,
\* whatever the external source answers, and the unlisted products are the
\* formatted list of what fetchUnlistedStocks returned, not catalog entries.
C19_AlternativeVehiclesListed ==
    (rpc = "resolved" /\ ~Throws(clientData) /\ AlternativesAsked) =>
        /\ \A vehicle \in {"pms", "aif", "unlistedStocks"} :
              /\ vehicle \in DOMAIN recommendations.equity
              /\ recommendations.equity[vehicle].products.len > 0
        /\ recommendations.equity.unlistedStocks.products.source \in {"api", "mock"}

----------------------------------------------------------------------------
(* Properties of the proposal's asset-allocation section *)

\* C20: for any allocation object generateAssetAllocationContent returns
\* without throwing; when detailedAllocation has a Total the detailed table is
\* rendered, with one row for each key other than Total and error and a total
\* row from detailedAllocation.Total; otherwise the legacy table computed from
\* assetClassAllocation and the initial investment is rendered.
C20_DetailedTableOrLegacy ==
    (ppc # "called" /\ proposalInput.assetAllocation.present) =>
        LET detailed == proposalInput.assetAllocation.detailedAllocation
        IN  /\ ppc = "returned"
            /\ content.percentages
                  = PercentageTable(proposalInput.assetAllocation.assetClassAllocation)
            /\ IF "Total" \in DOMAIN detailed THEN
                  /\ content.table = "detailed"
                  /\ {row.vehicle : row \in content.vehicles}
                        = DOMAIN detailed \ {"Total", "error"}
                  /\ Cardinality(content.vehicles)
                        = Cardinality(DOMAIN detailed \ {"Total", "error"})
                  /\ content.total = Rupees(detailed["Total"])
               ELSE
                  /\ content.table = "legacy"
                  /\ content.total = proposalInput.initialInvestment * (1000 * 100)

----------------------------------------------------------------------------
(* Properties relating the bands and the views of the allocation *)

\* the sizes the large-portfolio band is sampled at: the first size above
\* every special case and the largest size of the model
LargeSizes == {2 * LakhPerCrore + 1, MaxPortfolioLakh}

SmallBandDone == apc = "done" /\ riskCategory \in Recognized /\ portfolioSize <= LakhPerCrore

\* C21 as stated: for every recognized category the equity percentage of a
\* portfolio of at most 1 crore is strictly higher than the equity percentage
\* of the large-portfolio band of the same category.
C21_SmallBandMoreEquity ==
    SmallBandDone =>
        \A large \in LargeSizes :
            assetClassAllocation.equity
                > generateAssetClassAllocation(riskCategory, large).equity

\* C21 amended: against the large band of the same category the small band
\* has more equity for Ultra Aggressive (100 against 90), less for Aggressive
\* (75 against 80) and the same for Moderate (60) and Conservative (40).
C21_SmallBandEquity ==
    SmallBandDone =>
        \A large \in LargeSizes :
            LET small == assetClassAllocation.equity
                standard == generateAssetClassAllocation(riskCategory, large).equity
            IN  /\ riskCategory = "Ultra Aggressive" => small = 100 /\ standard = 90
                /\ riskCategory = "Aggressive" => small = 75 /\ standard = 80
                /\ riskCategory = "Moderate" => small = 60 /\ standard = 60
                /\ riskCategory = "Conservative" => small = 40 /\ standard = 40

\* an Ultra Aggressive portfolio of exactly 1 crore has been split
C21_Witness ==
    /\ apc = "done"
    /\ riskCategory = "Ultra Aggressive"
    /\ portfolioSize = LakhPerCrore
    /\ assetClassAllocation.equity = 100

----------------------------------------------------------------------------
(* Properties of the client profiling module *)

\* the required sections a questionnaire lacks, by their place in the order
MissingPlaces ==
    {i \in 1..4 :
        rawClientData.sections[
            <<"personalInfo", "financialSituation", "investmentObjectives",
              "riskTolerance">>[i]].is # "object"}

\* C22: a questionnaire lacking a required section makes processClientProfile
\* fail with "Missing required field: <name>" naming the first one missing,
\* and no profile is produced; with all four present there is no error, every
\* section is in the profile, and an optional section that is absent has its
\* defaults ('beginner' knowledge, no short-term liquidity, 0 percent
\* accessible, no tax saving, null for the rest).
C22_MissingFieldFailsFast ==
    (cpc # "called" /\ rawClientData.is = "object") =>
        IF MissingPlaces # {} THEN
            /\ cpc = "threw"
            /\ ~processedProfile.built
            /\ profileError.text = "Missing required field: "
            /\ \E i \in MissingPlaces :
                  /\ \A j \in MissingPlaces : i <= j
                  /\ profileError.field =
                        <<"personalInfo", "financialSituation", "investmentObjectives",
                          "riskTolerance">>[i]
        ELSE
            /\ cpc = "returned"
            /\ profileError.text = ""
            /\ processedProfile.built
            /\ Cardinality(DOMAIN processedProfile.sections) = 8
            /\ rawClientData.sections["knowledgeAndExperience"].is # "object" =>
                  processedProfile.sections["knowledgeAndExperience"]
                      = [investmentKnowledge |-> <<"beginner">>,
                         decisionMakingApproach |-> <<"null">>]
            /\ rawClientData.sections["liquidityNeeds"].is # "object" =>
                  processedProfile.sections["liquidityNeeds"]
                      = [shortTermLiquidity |-> <<"false">>,
                         accessiblePortfolioPercentage |-> <<"0">>]
            /\ rawClientData.sections["taxConsiderations"].is # "object" =>
                  processedProfile.sections["taxConsiderations"]
                      = [taxSavingInvestmentsRequired |-> <<"false">>,
                         taxBracket |-> <<"null">>]
            /\ rawClientData.sections["behavioralInsights"].is # "object" =>
                  processedProfile.sections["behavioralInsights"]
                      = [emotionalReaction |-> <<"null">>, managementPreference |-> <<"null">>]
            /\ \A name \in OptionalSections :
                  rawClientData.sections[name].is = "object" =>
                      processedProfile.sections[name]
                          = Extract(name, rawClientData.sections[name])

\* a questionnaire without financialSituation and riskTolerance has been
\* refused for its financialSituation
C22_Witness ==
    /\ cpc = "threw"
    /\ rawClientData.is = "object"
    /\ rawClientData.sections["personalInfo"].is = "object"
    /\ rawClientData.sections["financialSituation"].is = "absent"
    /\ rawClientData.sections["riskTolerance"].is = "null"
    /\ profileError.field = "financialSituation"

----------------------------------------------------------------------------
(* Properties of PDF rendering *)

\* C23: every /api/generate-proposal-pdf request is eventually answered with
\* exactly one response, whichever step of the rendering fails: the request
\* never hangs and the process does not crash.
C23_EveryRequestAnswered ==
    \A c \in Calls : (pdfpc[c] # "idle") ~> (process = "running" /\ Len(answers[c]) = 1)

\* the requests whose temporary files are in use: written and not yet read back
InFlight == {c \in Calls : pdfpc[c] \in {"converting", "callback"}}

\* C29: two generateProposalPDF calls in flight together never share a
\* temporary markdown or PDF file, and the buffer each request is answered
\* with is rendered from its own proposal.
C29_NoSharedTempFiles ==
    /\ \A c, d \in InFlight :
          c # d => /\ tempFiles[c].md # tempFiles[d].md
                   /\ tempFiles[c].pdf # tempFiles[d].pdf
    /\ \A c \in Calls :
          \A i \in DOMAIN answers[c] :
              answers[c][i].status = 200 => answers[c][i].rendered = c

\* the amount detailedAllocation holds in the vehicles of a class
ClassAmount(allocation, Includes(_)) ==
    SumOver(allocation, {k \in Vehicles(allocation) : Includes(k)})

\* C24: for every recognized category and every size, the equity percentage
\* of assetClassAllocation is the share of Total that detailedAllocation holds
\* in its equity vehicles, and the debt percentage the share it holds in its
\* debt vehicles.
C24_SplitMatchesBreakdown ==
    (apc = "done" /\ riskCategory \in Recognized /\ portfolioSize > 0) =>
        /\ 100 * ClassAmount(detailedAllocation, IncludesEquity)
              = assetClassAllocation.equity * detailedAllocation["Total"]
        /\ 100 * ClassAmount(detailedAllocation, IncludesDebt)
              = assetClassAllocation.debt * detailedAllocation["Total"]

----------------------------------------------------------------------------
(* Properties of the workflow from the risk scorer to the allocation engine *)

\* C25: the category the risk scorer returns is one the allocation engine
\* recognizes: the allocation generated for it has no error sentinel in
\* detailedAllocation and its asset-class split is that of one of the four
\* strategies, not the default for an unrecognized one.
C25_ScorerCategoryRecognized ==
    (kpc = "returned" /\ apc = "done") =>
        /\ "error" \notin DOMAIN detailedAllocation
        /\ "Total" \in DOMAIN detailedAllocation
        /\ riskCategory \in {"Ultra Aggressive", "Aggressive", "Moderate", "Conservative"}

----------------------------------------------------------------------------
(* C26: the vehicles of a generated allocation in the recommendations *)

\* the recommendation key of a vehicle of detailedAllocation, and the minimum
\* ticket of its gate (products.js, lines 292, 309, 338, 496, 524, 549)
RecommendationOf(vehicle) ==
    CASE vehicle \in {"Equity Mutual Funds", "Mutual Funds"} ->
            [class |-> "equity", key |-> "mutualFunds", minimum |-> 0]
      [] vehicle \in {"Equity PMS", "PMS"} ->
            [class |-> "equity", key |-> "pms", minimum |-> PMSMinimum]
      [] vehicle \in {"Equity AIF", "AIF"} ->
            [class |-> "equity", key |-> "aif", minimum |-> EquityAIFMinimum]
      [] vehicle = "Debt Mutual Funds" -> [class |-> "debt", key |-> "mutualFunds", minimum |-> 0]
      [] vehicle = "Direct Debt" -> [class |-> "debt", key |-> "direct", minimum |-> 0]
      [] vehicle = "Debt AIF" -> [class |-> "debt", key |-> "aif", minimum |-> DebtAIFMinimum]

\* recommendProducts has returned for the allocation generateAssetAllocation
\* produces for the request's category and size
GeneratedResolved ==
    /\ rpc = "resolved"
    /\ clientData.portfolioSize \in GeneratedSizes
    /\ clientData = GeneratedRequest(clientData.riskCategory, clientData.portfolioSize)

\* C26: when recommendProducts is given the allocation object produced by
\* generateAssetAllocation, every vehicle with a non-zero amount in
\* detailedAllocation that passes its minimum-ticket gate is among the
\* recommendations of its class, with a non-zero allocation percentage.
C26_GeneratedVehiclesRecommended ==
    GeneratedResolved =>
        LET detailed == getPortfolioAllocation(clientData.riskCategory,
                                               clientData.portfolioSize)
        IN  \A vehicle \in Vehicles(detailed) :
                LET r == RecommendationOf(vehicle)
                IN  (detailed[vehicle] > 0 /\ clientData.portfolioSize >= r.minimum) =>
                        /\ r.key \in DOMAIN recommendations[r.class]
                        /\ recommendations[r.class][r.key].allocation > 0

----------------------------------------------------------------------------
(* C27: the catalog level follows the order of the categories *)

\* the catalog levels in order of risk
LevelRank(level) ==
    CASE level = "conservative" -> 1
      [] level = "moderate" -> 2
      [] level = "aggressive" -> 3

\* recommendProducts has returned equity mutual funds read from the catalog at
\* the level it mapped the category to (lines 129, 269-273)
LevelShown ==
    /\ rpc = "resolved"
    /\ clientData.shape = "noProductTypeAllocation"
    /\ ~Throws(clientData)

\* C27: the catalog level chosen by mapRiskCategoryToLevel is monotone over
\* Conservative < Moderate < Aggressive < Ultra-Aggressive: the level a request
\* is served at is never below the level of a less aggressive category.
C27_LevelMonotone ==
    LevelShown =>
        \A lower \in ScorerCategories :
            CategoryRank(lower) < CategoryRank(clientData.riskCategory) =>
                LevelRank(mapRiskCategoryToLevel(lower))
                    <= LevelRank(recommendations.equity.mutualFunds.products.level)

----------------------------------------------------------------------------
(* C28: the checkpoint tables and the closed-form percentages above 5 crore *)

\* the amount of a vehicle in an allocation, an absent vehicle counting as 0
AmountOf(allocation, vehicle) ==
    IF vehicle \in DOMAIN allocation THEN allocation[vehicle] ELSE 0

\* the allocation was generated from the scaled row of a checkpoint table
\* (allocation.js, lines 688-716) for a recognized category above 5 crore
TablePathDone ==
    /\ apc = "done"
    /\ riskCategory \in Recognized
    /\ portfolioSize > 5 * LakhPerCrore
    /\ RangeKey(portfolioSize) \in DOMAIN LookupTable(riskCategory)

\* the doubles the table path computed for the request, and the doubles the
\* percentages of calculateAllocation compute for it
TableDoubles == ScaledRowDoubles(riskCategory, portfolioSize, RangeKey(portfolioSize))

FormulaDoubles == StandardAllocationDoubles(riskCategory, portfolioSize)

\* the double of a vehicle in an allocation, an absent vehicle counting as 0
DoubleOf(allocation, vehicle) ==
    IF vehicle \in DOMAIN allocation THEN allocation[vehicle] ELSE Zero

\* C28 as stated: for every recognized category and every portfolio size
\* above 5 crore the scaled checkpoint row that getPredefinedAllocation
\* returns and the percentages of calculateAllocation give the same amount,
\* the same double, for every vehicle, a vehicle absent from one of them
\* counting as 0.
C28_TableEqualsFormula ==
    TablePathDone =>
        LET tableDoubles == TableDoubles
            formulaDoubles == FormulaDoubles
        IN  \A vehicle \in Vehicles(tableDoubles) \cup Vehicles(formulaDoubles) :
                DoubleOf(tableDoubles, vehicle) = DoubleOf(formulaDoubles, vehicle)

\* C28: for every recognized category and every portfolio size above 5 crore
\* the scaled checkpoint row that getPredefinedAllocation returns and the
\* percentages of calculateAllocation give, for every vehicle (a vehicle
\* absent from one of them counting as 0), doubles at most two units in the
\* last place apart, and so the same amount to the nearest unit; the amounts
\* held for the request are the nearest units of those doubles.
C28_TableMatchesFormula ==
    TablePathDone =>
        LET formula == calculateAllocation(riskCategory, portfolioSize)
            tableDoubles == TableDoubles
            formulaDoubles == FormulaDoubles
        IN  /\ Vehicles(tableDoubles) = Vehicles(detailedAllocation)
            /\ Vehicles(formulaDoubles) = Vehicles(formula)
            /\ \A vehicle \in Vehicles(detailedAllocation) \cup Vehicles(formula) :
                  LET fromTable == DoubleOf(tableDoubles, vehicle)
                      fromFormula == DoubleOf(formulaDoubles, vehicle)
                  IN  /\ WithinUlps(fromTable, fromFormula, 2)
                      /\ AmountOf(detailedAllocation, vehicle) = Units(fromTable)
                      /\ AmountOf(formula, vehicle) = Units(fromFormula)
                      /\ AmountOf(detailedAllocation, vehicle)
                            = AmountOf(formula, vehicle)

\* a Moderate portfolio of 5.02 crore, where the row of 10 crore is scaled
\* and the two doubles of Equity Mutual Funds are two apart: 0.35 * 5.02 and
\* 3.5 * (5.02 / 10)
C28_Witness ==
    /\ TablePathDone
    /\ riskCategory = "Moderate"
    /\ portfolioSize = 5 * LakhPerCrore + 2
    /\ detailedAllocation["Equity Mutual Funds"] > 0
    /\ ~WithinUlps(TableDoubles["Equity Mutual Funds"],
                   FormulaDoubles["Equity Mutual Funds"], 1)
    /\ WithinUlps(TableDoubles["Equity Mutual Funds"],
                  FormulaDoubles["Equity Mutual Funds"], 2)

----------------------------------------------------------------------------
(* C30: the product types of the allocation by size category *)

\* C30: in the allocation by portfolio size category, for every risk category
\* and every size category, the product-type percentages of each asset class
\* (equity, debt, goldSilver) are each between 0 and 100 and sum to exactly 100
\* after the risk-category adjustment.
C30_ProductTypesSumTo100 ==
    zpc = "done" =>
        \A class \in {"equity", "debt", "goldSilver"} :
            LET types == sizedAllocation.productTypeAllocation[class]
            IN  /\ \A type \in DOMAIN types : types[type] \in 0..100
                /\ SumOver(types, DOMAIN types) = 100

====
